---- MODULE Spec2Model ----
(***************************************************************************)
(* Model of the service-desk analytics backend (GET /api/analyze).         *)
(* JavaScript numbers are IEEE-754 binary64; the handler's divisions,      *)
(* multiplications and Math.round are modelled bit-exactly on 53-bit       *)
(* significands, because the percentages are returned unrounded.           *)
(***************************************************************************)
EXTENDS Integers, Sequences, FiniteSets, TLC

----------------------------------------------------------------------------
(* IEEE-754 binary64 arithmetic (JavaScript number).                       *)
(* A finite non-zero double is [k |-> "num", s, e, hi, lo]: sign s,        *)
(* unbiased exponent e and the 53-bit significand hi * 2^27 + lo, whose     *)
(* top bit is set (2^25 <= hi < 2^26, lo < 2^27); its value is             *)
(* (-1)^s * (hi * 2^27 + lo) * 2^(e - 52).  Wider intermediate results are *)
(* bit strings written as sequences of fields <<v, w>>: the w-bit number v, *)
(* most significant field first.                                            *)

Prec == 53

Zero == [k |-> "zero", s |-> 0, e |-> 0, hi |-> 0, lo |-> 0]

NaN == [k |-> "nan", s |-> 0, e |-> 0, hi |-> 0, lo |-> 0]

Abs(n) == IF n < 0 THEN -n ELSE n

Min(a, b) == IF a < b THEN a ELSE b

RECURSIVE GCD(_, _)
GCD(a, b) == IF b = 0 THEN a ELSE GCD(b, a % b)

\* the number of bits of the natural number v
RECURSIVE BitLen(_)
BitLen(v) == IF v = 0 THEN 0 ELSE 1 + BitLen(v \div 2)

\* the largest power of two that divides d > 0, as an exponent
RECURSIVE TwoAdic(_)
TwoAdic(d) == IF d % 2 = 1 THEN 0 ELSE 1 + TwoAdic(d \div 2)

\* bits i+1 .. i+n of the bit string fs as a number (n <= 30), zero bits past
\* its end
RECURSIVE Bits(_, _, _)
Bits(fs, i, n) ==
    IF fs = <<>> \/ n = 0 THEN 0
    ELSE LET v == fs[1][1]
             w == fs[1][2]
             take == Min(n, w - i)
             piece == (v \div 2 ^ (w - i - take)) % 2 ^ take
         IN  IF i >= w THEN Bits(Tail(fs), i - w, n)
             ELSE IF take = n THEN piece
             ELSE piece * 2 ^ (n - take) + Bits(Tail(fs), 0, n - take)

\* whether a bit after position i of the bit string fs is set
RECURSIVE AnyBit(_, _)
AnyBit(fs, i) ==
    IF fs = <<>> THEN FALSE
    ELSE IF i >= fs[1][2] THEN AnyBit(Tail(fs), i - fs[1][2])
    ELSE fs[1][1] % 2 ^ (fs[1][2] - i) # 0 \/ AnyBit(Tail(fs), 0)

\* the number of zero bits before the first set bit of the bit string fs # 0
RECURSIVE LeadingZeros(_)
LeadingZeros(fs) ==
    IF fs[1][1] = 0 THEN fs[1][2] + LeadingZeros(Tail(fs))
    ELSE fs[1][2] - BitLen(fs[1][1])

Significand(x) == <<<<x.hi, 26>>, <<x.lo, 27>>>>

\* the double of sign s whose significand is the Prec bits of fs after its z
\* leading zeros, rounded to nearest, ties to even, and whose leading bit has
\* weight 2^e; sticky says that set bits follow the bit string
Round(s, e, fs, z, sticky) ==
    LET hi == Bits(fs, z, 26)
        lo == Bits(fs, z + 26, 27)
        guard == Bits(fs, z + Prec, 1)
        rest == sticky \/ AnyBit(fs, z + Prec + 1)
        up == guard = 1 /\ (rest \/ lo % 2 = 1)
    IN  IF ~up THEN [k |-> "num", s |-> s, e |-> e, hi |-> hi, lo |-> lo]
        ELSE IF lo + 1 < 2 ^ 27 THEN [k |-> "num", s |-> s, e |-> e, hi |-> hi, lo |-> lo + 1]
        ELSE IF hi + 1 < 2 ^ 26 THEN [k |-> "num", s |-> s, e |-> e, hi |-> hi + 1, lo |-> 0]
        ELSE [k |-> "num", s |-> s, e |-> e + 1, hi |-> 2 ^ 25, lo |-> 0]

\* binary long division of the bit string m by d > 0, c bits at a time
\* (d * 2^c <= 2^30), continued with zero bits until Prec + 1 significant
\* quotient bits are known; sig counts the significant bits of the quotient acc
RECURSIVE QuotBits(_, _, _, _, _, _, _)
QuotBits(acc, sig, r, d, c, m, i) ==
    IF sig >= Prec + 1 /\ i >= m[1][2] + (IF Len(m) > 1 THEN m[2][2] ELSE 0)
    THEN [bits |-> acc, sticky |-> r # 0]
    ELSE LET t == r * 2 ^ c + Bits(m, i, c)
             q == t \div d
         IN  QuotBits(Append(acc, <<q, c>>), IF sig = 0 THEN BitLen(q) ELSE sig + c,
                      t % d, d, c, m, i + c)

\* the double nearest to m * 2^(e - n + 1) / d for an n-bit string m of one
\* or two fields; a power of two in d only moves the exponent
Quotient(s, e, m, d) ==
    LET z2 == TwoAdic(d)
        odd == d \div 2 ^ z2
        q == QuotBits(<<>>, 0, 0, odd, 30 - BitLen(odd), m, 0)
        z == LeadingZeros(q.bits)
    IN  Round(s, e - z2 - z, q.bits, z, q.sticky)

\* the double nearest to a / d, for integers a and d > 0 (JavaScript a / d on
\* operands that are exact integers); the division is correctly rounded, so
\* the fraction may be reduced first
FDiv(a, d) ==
    IF a = 0 THEN Zero
    ELSE LET g == GCD(Abs(a), d)
         IN  Quotient(IF a < 0 THEN 1 ELSE 0, 29, <<<<Abs(a) \div g, 30>>>>, d \div g)

\* x / d for a double x and an integer d > 0
FDivInt(x, d) == IF x.k # "num" THEN x ELSE Quotient(x.s, x.e, Significand(x), d)

\* x * c for a double x and an integer 0 < c < 2^7: the significand is
\* multiplied in three parts of 17, 18 and 18 bits
FMulInt(x, c) ==
    IF x.k # "num" THEN x
    ELSE LET m == Significand(x)
             p3 == Bits(m, 35, 18) * c
             p2 == Bits(m, 17, 18) * c + p3 \div 2 ^ 18
             p1 == Bits(m, 0, 17) * c + p2 \div 2 ^ 18
             p == <<<<p1, 24>>, <<p2 % 2 ^ 18, 18>>, <<p3 % 2 ^ 18, 18>>>>
             z == LeadingZeros(p)
         IN  Round(x.s, x.e + 7 - z, p, z, FALSE)

\* x + y for doubles x, y >= 0: the significands are aligned and added in
\* parts of 27 bits
FAdd(x, y) ==
    IF x.k = "nan" \/ y.k = "nan" THEN NaN
    ELSE IF x.k = "zero" THEN y
    ELSE IF y.k = "zero" THEN x
    ELSE LET big == IF x.e >= y.e THEN x ELSE y
             small == IF x.e >= y.e THEN y ELSE x
             sh == big.e - small.e
             a == <<<<0, 1>>>> \o Significand(big) \o <<<<0, 27>>, <<0, 27>>>>
             b == <<<<0, 1>>>> \o (IF sh <= 27 THEN <<<<0, sh>>>> ELSE <<<<0, 27>>, <<0, sh - 27>>>>)
                      \o Significand(small)
             s4 == Bits(a, 81, 27) + Bits(b, 81, 27)
             s3 == Bits(a, 54, 27) + Bits(b, 54, 27) + s4 \div 2 ^ 27
             s2 == Bits(a, 27, 27) + Bits(b, 27, 27) + s3 \div 2 ^ 27
             s1 == Bits(a, 0, 27) + Bits(b, 0, 27) + s2 \div 2 ^ 27
             sum == <<<<s1, 27>>, <<s2 % 2 ^ 27, 27>>, <<s3 % 2 ^ 27, 27>>, <<s4 % 2 ^ 27, 27>>>>
             z == LeadingZeros(sum)
         IN  IF sh > Prec + 1 THEN big
             ELSE Round(0, big.e + 1 - z, sum, z, FALSE)

\* Math.round: the integer floor(x + 1/2), for |x| < 2^30
MathRound(x) ==
    IF x.k = "zero" \/ x.e < -1 THEN 0
    ELSE LET int == Bits(Significand(x), 0, x.e + 1)
             half == Bits(Significand(x), x.e + 1, 1)
             rest == AnyBit(Significand(x), x.e + 2)
         IN  IF x.s = 0 THEN int + half
             ELSE IF half = 1 /\ rest THEN -(int + 1) ELSE -int

\* Math.round(x * 100) / 100, NaN for NaN
Round2(x) == IF x.k = "nan" THEN NaN ELSE FDiv(MathRound(FMulInt(x, 100)), 100)

----------------------------------------------------------------------------
(* Strings are sequences of characters; String.prototype.toLowerCase maps  *)
(* every upper-case letter to its lower-case letter.                       *)

\* the lower-case letter of each upper-case letter
LowerOf ==
    "A" :> "a" @@ "B" :> "b" @@ "C" :> "c" @@ "D" :> "d" @@ "E" :> "e" @@ "F" :> "f" @@
    "G" :> "g" @@ "H" :> "h" @@ "I" :> "i" @@ "J" :> "j" @@ "K" :> "k" @@ "L" :> "l" @@
    "M" :> "m" @@ "N" :> "n" @@ "O" :> "o" @@ "P" :> "p" @@ "Q" :> "q" @@ "R" :> "r" @@
    "S" :> "s" @@ "T" :> "t" @@ "U" :> "u" @@ "V" :> "v" @@ "W" :> "w" @@ "X" :> "x" @@
    "Y" :> "y" @@ "Z" :> "z"

LowerChar(c) == IF c \in DOMAIN LowerOf THEN LowerOf[c] ELSE c

toLowerCase(s) == [i \in 1..Len(s) |-> LowerChar(s[i])]

\* the string literals of the handler
open == <<"o","p","e","n">>
closed == <<"c","l","o","s","e","d">>
pending == <<"p","e","n","d","i","n","g">>
hold == <<"h","o","l","d">>
solved == <<"s","o","l","v","e","d">>
new == <<"n","e","w">>
high == <<"h","i","g","h">>
normal == <<"n","o","r","m","a","l">>
low == <<"l","o","w">>
NA == <<"N","/","A">>

\* the property name every object literal inherits from Object.prototype and
\* that a lowercased input string can spell
constructor == <<"c","o","n","s","t","r","u","c","t","o","r">>

\* the value undefined where a string is expected (a field missing from the
\* upstream JSON); it is no sequence of characters
undefined == <<"undefined">>

----------------------------------------------------------------------------
(* Dates.  A timestamp string "2024-12-DDThh:mm:00.000Z" is the triple     *)
(* <<DD, hh, mm>>, and "2024-12-DDThh:mm:ss.mmmZ" is <<DD, hh, mm, ss, mmm>>;  *)
(* any other string does not parse.  Instants are counted                   *)
(* in milliseconds from 2024-12-01T00:00:00Z instead of from the epoch     *)
(* (only differences and comparisons of instants are used).                 *)

MsPerHour == 1000 * 60 * 60

MsPerDay == 1000 * 60 * 60 * 24

\* new Date(string): an instant, or the Invalid Date (time value NaN)
Date(str) ==
    IF Len(str) = 3 /\ str[1] \in 1..20 /\ str[2] \in 0..23 /\ str[3] \in 0..59
    THEN [nan |-> FALSE, t |-> (((str[1] - 1) * 24 + str[2]) * 60 + str[3]) * 60000]
    ELSE IF /\ Len(str) = 5 /\ str[1] \in 1..20 /\ str[2] \in 0..23 /\ str[3] \in 0..59
            /\ str[4] \in 0..59 /\ str[5] \in 0..999
    THEN [nan |-> FALSE,
          t |-> ((((str[1] - 1) * 24 + str[2]) * 60 + str[3]) * 60 + str[4]) * 1000 + str[5]]
    ELSE [nan |-> TRUE, t |-> 0]

\* a <= b and a > b on Dates or numbers; every comparison with NaN is false
LessEq(a, b) == ~a.nan /\ ~b.nan /\ a.t <= b.t

Greater(a, b) == ~a.nan /\ ~b.nan /\ a.t > b.t

\* a - b and a + b on numbers (integers here, or NaN)
Minus(a, b) == IF a.nan \/ b.nan THEN [nan |-> TRUE, t |-> 0] ELSE [nan |-> FALSE, t |-> a.t - b.t]

Plus(a, b) == IF a.nan \/ b.nan THEN [nan |-> TRUE, t |-> 0] ELSE [nan |-> FALSE, t |-> a.t + b.t]


----------------------------------------------------------------------------
(* JavaScript objects used as string-keyed maps (Record<string, T>): a     *)
(* sequence of <<key, value>> pairs in the order of Object.keys: the keys   *)
(* that are integer indices in ascending order, then the other keys in      *)
(* insertion order.                                                         *)

DigitOf ==
    "0" :> 0 @@ "1" :> 1 @@ "2" :> 2 @@ "3" :> 3 @@ "4" :> 4 @@
    "5" :> 5 @@ "6" :> 6 @@ "7" :> 7 @@ "8" :> 8 @@ "9" :> 9

\* a < b for two numerals without leading zeros
IndexLess(a, b) ==
    \/ Len(a) < Len(b)
    \/ /\ Len(a) = Len(b)
       /\ \E i \in 1..Len(a) :
              /\ DigitOf[a[i]] < DigitOf[b[i]]
              /\ \A j \in 1..(i - 1) : a[j] = b[j]

\* the key is an integer index: the canonical numeral of an integer from 0
\* to 2^32 - 2
IsIndex(key) ==
    /\ Len(key) > 0
    /\ \A i \in 1..Len(key) : key[i] \in DOMAIN DigitOf
    /\ Len(key) > 1 => key[1] # "0"
    /\ IndexLess(key, <<"4","2","9","4","9","6","7","2","9","5">>)

Has(obj, key) == \E i \in 1..Len(obj) : obj[i][1] = key

Get(obj, key) == obj[CHOOSE i \in 1..Len(obj) : obj[i][1] = key][2]

Put(obj, key, val) ==
    IF Has(obj, key)
    THEN [i \in 1..Len(obj) |-> IF obj[i][1] = key THEN <<key, val>> ELSE obj[i]]
    ELSE IF IsIndex(key)
    THEN LET before == Cardinality({i \in 1..Len(obj) :
                           IsIndex(obj[i][1]) /\ IndexLess(obj[i][1], key)})
         IN  SubSeq(obj, 1, before) \o <<(<<key, val>>)>> \o SubSeq(obj, before + 1, Len(obj))
    ELSE Append(obj, <<key, val>>)

Keys(obj) == [i \in 1..Len(obj) |-> obj[i][1]]

\* the values read from and written to a Record<string, number>: a number n,
\* undefined, the function Object, or a string s given by its pieces
Number(n) == [type |-> "number", n |-> n, s |-> <<>>]

Undefined == [type |-> "undefined", n |-> 0, s |-> <<>>]

ObjectFunction == [type |-> "function", n |-> 0, s |-> <<"function Object() { [native code] }">>]

\* obj[key] on an object literal: the own property, else the property
\* inherited from Object.prototype, else undefined
Lookup(obj, key) ==
    IF Has(obj, key) THEN Get(obj, key)
    ELSE IF key = constructor THEN ObjectFunction
    ELSE Undefined

Truthy(v) ==
    \/ v.type = "function"
    \/ v.type = "number" /\ v.n # 0
    \/ v.type = "string" /\ v.s # <<>>

\* (v || 0) + 1: addition on a number, concatenation of "1" to the string of
\* anything else
OrZeroPlusOne(v) ==
    IF ~Truthy(v) THEN Number(1)
    ELSE IF v.type = "number" THEN Number(v.n + 1)
    ELSE [type |-> "string", n |-> 0, s |-> Append(v.s, "1")]

\* x > y on two such values: a string that is no numeral converts to NaN
GreaterValue(x, y) == x.type = "number" /\ y.type = "number" /\ x.n > y.n

\* issue.satisfaction_rating?.score: the score, or the empty string for a
\* missing rating (both are falsy)
Score(issue) ==
    IF issue.satisfaction_rating = <<>> THEN <<>> ELSE issue.satisfaction_rating[1].score

----------------------------------------------------------------------------
(* The computation of GET /api/analyze on a non-empty issues array.        *)

\* (count / totalIssues) * 100
Percent(count, total) == FMulInt(FDiv(count, total), 100)

\* faulty variant: the status is compared as spelled, not lowercased
statusStep_caseSensitive(statusCounts, issue) ==
    LET status == issue.status
    IN  IF status = open THEN [statusCounts EXCEPT !.open = @ + 1]
        ELSE IF status = closed THEN [statusCounts EXCEPT !.closed = @ + 1]
        ELSE IF status = pending THEN [statusCounts EXCEPT !.pending = @ + 1]
        ELSE IF status = hold THEN [statusCounts EXCEPT !.hold = @ + 1]
        ELSE IF status = solved THEN [statusCounts EXCEPT !.solved = @ + 1]
        ELSE IF status = new THEN [statusCounts EXCEPT !.new = @ + 1]
        ELSE statusCounts

statusStep(statusCounts, issue) ==
    LET status == toLowerCase(issue.status)
    IN  IF status = open THEN [statusCounts EXCEPT !.open = @ + 1]
        ELSE IF status = closed THEN [statusCounts EXCEPT !.closed = @ + 1]
        ELSE IF status = pending THEN [statusCounts EXCEPT !.pending = @ + 1]
        ELSE IF status = hold THEN [statusCounts EXCEPT !.hold = @ + 1]
        ELSE IF status = solved THEN [statusCounts EXCEPT !.solved = @ + 1]
        ELSE IF status = new THEN [statusCounts EXCEPT !.new = @ + 1]
        ELSE statusCounts

\* the counters after issues.forEach: after[i] is their value after i issues
statusCounts(issues) ==
    LET after[i \in 0..Len(issues)] ==
            IF i = 0
            THEN [open |-> 0, closed |-> 0, pending |-> 0, hold |-> 0, solved |-> 0, new |-> 0]
            ELSE statusStep(after[i - 1], issues[i])
    IN  after[Len(issues)]

statusBreakdown(issues) ==
    LET c == statusCounts(issues)
        totalIssues == Len(issues)
    IN  [open |-> c.open, closed |-> c.closed, pending |-> c.pending,
         hold |-> c.hold, solved |-> c.solved, new |-> c.new,
         openPercent |-> Percent(c.open, totalIssues),
         closedPercent |-> Percent(c.closed, totalIssues),
         pendingPercent |-> Percent(c.pending, totalIssues),
         holdPercent |-> Percent(c.hold, totalIssues),
         solvedPercent |-> Percent(c.solved, totalIssues),
         newPercent |-> Percent(c.new, totalIssues)]

\* faulty variant: the priority is compared as spelled, not lowercased
priorityStep_caseSensitive(priorityCounts, issue) ==
    LET priority == issue.priority
    IN  IF priority = high THEN [priorityCounts EXCEPT !.high = @ + 1]
        ELSE IF priority = normal THEN [priorityCounts EXCEPT !.normal = @ + 1]
        ELSE IF priority = low THEN [priorityCounts EXCEPT !.low = @ + 1]
        ELSE priorityCounts

priorityStep(priorityCounts, issue) ==
    LET priority == toLowerCase(issue.priority)
    IN  IF priority = high THEN [priorityCounts EXCEPT !.high = @ + 1]
        ELSE IF priority = normal THEN [priorityCounts EXCEPT !.normal = @ + 1]
        ELSE IF priority = low THEN [priorityCounts EXCEPT !.low = @ + 1]
        ELSE priorityCounts

priorityBreakdown(issues) ==
    LET after[i \in 0..Len(issues)] ==
            IF i = 0 THEN [high |-> 0, normal |-> 0, low |-> 0]
            ELSE priorityStep(after[i - 1], issues[i])
        c == after[Len(issues)]
        totalIssues == Len(issues)
    IN  [high |-> c.high, normal |-> c.normal, low |-> c.low,
         highPercent |-> Percent(c.high, totalIssues),
         normalPercent |-> Percent(c.normal, totalIssues),
         lowPercent |-> Percent(c.low, totalIssues)]

\* faulty variant: resolved exactly at the due instant counts as overdue (< for <=)
timelinessStep_strict(date, acc, issue) ==
    LET status == toLowerCase(issue.status)
        dueDate == Date(issue.due)
    IN  IF status = closed \/ status = solved
        THEN LET updatedDate == Date(issue.updated)
             IN  IF Greater(dueDate, updatedDate)
                 THEN [acc EXCEPT !.onTime = @ + 1]
                 ELSE [acc EXCEPT !.overdue = @ + 1]
        ELSE IF status = open \/ status = pending \/ status = hold \/ status = new
        THEN IF Greater(date, dueDate)
             THEN [acc EXCEPT !.currentlyOverdue = @ + 1]
             ELSE acc
        ELSE acc

\* faulty variant: an unresolved record due exactly now is currently overdue (>= for >)
timelinessStep_dueNow(date, acc, issue) ==
    LET status == toLowerCase(issue.status)
        dueDate == Date(issue.due)
    IN  IF status = closed \/ status = solved
        THEN LET updatedDate == Date(issue.updated)
             IN  IF LessEq(updatedDate, dueDate)
                 THEN [acc EXCEPT !.onTime = @ + 1]
                 ELSE [acc EXCEPT !.overdue = @ + 1]
        ELSE IF status = open \/ status = pending \/ status = hold \/ status = new
        THEN IF LessEq(dueDate, date)
             THEN [acc EXCEPT !.currentlyOverdue = @ + 1]
             ELSE acc
        ELSE acc

\* faulty variant: a resolved record is on time when now, not updated, is <= due
timelinessStep_nowForResolved(date, acc, issue) ==
    LET status == toLowerCase(issue.status)
        dueDate == Date(issue.due)
    IN  IF status = closed \/ status = solved
        THEN IF LessEq(date, dueDate)
             THEN [acc EXCEPT !.onTime = @ + 1]
             ELSE [acc EXCEPT !.overdue = @ + 1]
        ELSE IF status = open \/ status = pending \/ status = hold \/ status = new
        THEN IF Greater(date, dueDate)
             THEN [acc EXCEPT !.currentlyOverdue = @ + 1]
             ELSE acc
        ELSE acc

\* one iteration of the timeliness loop; date is the constant now, taken
\* before the loop
timelinessStep(date, acc, issue) ==
    LET status == toLowerCase(issue.status)
        dueDate == Date(issue.due)
    IN  IF status = closed \/ status = solved
        THEN LET updatedDate == Date(issue.updated)
             IN  IF LessEq(updatedDate, dueDate)
                 THEN [acc EXCEPT !.onTime = @ + 1]
                 ELSE [acc EXCEPT !.overdue = @ + 1]
        ELSE IF status = open \/ status = pending \/ status = hold \/ status = new
        THEN IF Greater(date, dueDate)
             THEN [acc EXCEPT !.currentlyOverdue = @ + 1]
             ELSE acc
        ELSE acc

\* faulty variant: overduePercent is taken of all issues, not of the resolved ones
resolutionTimeliness_ofTotal(issues, date) ==
    LET after[i \in 0..Len(issues)] ==
            IF i = 0 THEN [onTime |-> 0, overdue |-> 0, currentlyOverdue |-> 0]
            ELSE timelinessStep(date, after[i - 1], issues[i])
        c == after[Len(issues)]
        totalIssues == Len(issues)
        totalResolved == c.onTime + c.overdue
    IN  [onTime |-> c.onTime, overdue |-> c.overdue,
         currentlyOverdue |-> c.currentlyOverdue,
         onTimePercent |-> IF totalResolved > 0 THEN Percent(c.onTime, totalResolved) ELSE Zero,
         overduePercent |-> IF totalResolved > 0 THEN Percent(c.overdue, totalIssues) ELSE Zero,
         currentlyOverduePercent |->
             IF totalIssues > 0 THEN Percent(c.currentlyOverdue, totalIssues) ELSE Zero]

\* faulty variant: new Date() is read in every iteration, a millisecond later
\* each time
resolutionTimeliness_resampled(issues, date) ==
    LET after[i \in 0..Len(issues)] ==
            IF i = 0 THEN [onTime |-> 0, overdue |-> 0, currentlyOverdue |-> 0]
            ELSE timelinessStep(Plus(date, [nan |-> FALSE, t |-> i - 1]), after[i - 1],
                                issues[i])
        c == after[Len(issues)]
        totalIssues == Len(issues)
        totalResolved == c.onTime + c.overdue
    IN  [onTime |-> c.onTime, overdue |-> c.overdue,
         currentlyOverdue |-> c.currentlyOverdue,
         onTimePercent |-> IF totalResolved > 0 THEN Percent(c.onTime, totalResolved) ELSE Zero,
         overduePercent |-> IF totalResolved > 0 THEN Percent(c.overdue, totalResolved) ELSE Zero,
         currentlyOverduePercent |->
             IF totalIssues > 0 THEN Percent(c.currentlyOverdue, totalIssues) ELSE Zero]

resolutionTimeliness(issues, date) ==
    LET after[i \in 0..Len(issues)] ==
            IF i = 0 THEN [onTime |-> 0, overdue |-> 0, currentlyOverdue |-> 0]
            ELSE timelinessStep(date, after[i - 1], issues[i])
        c == after[Len(issues)]
        totalIssues == Len(issues)
        totalResolved == c.onTime + c.overdue
    IN  [onTime |-> c.onTime, overdue |-> c.overdue,
         currentlyOverdue |-> c.currentlyOverdue,
         onTimePercent |-> IF totalResolved > 0 THEN Percent(c.onTime, totalResolved) ELSE Zero,
         overduePercent |-> IF totalResolved > 0 THEN Percent(c.overdue, totalResolved) ELSE Zero,
         currentlyOverduePercent |->
             IF totalIssues > 0 THEN Percent(c.currentlyOverdue, totalIssues) ELSE Zero]

\* faulty variant: solved issues are left out of the high-priority filter
isHighPriorityClosed_closedOnly(issue) ==
    LET priority == toLowerCase(issue.priority)
        status == toLowerCase(issue.status)
    IN  priority = high /\ status = closed

isHighPriorityClosed(issue) ==
    LET priority == toLowerCase(issue.priority)
        status == toLowerCase(issue.status)
    IN  priority = high /\ (status = closed \/ status = solved)

highPriorityClosed(issues) == SelectSeq(issues, isHighPriorityClosed)

\* faulty variant: the time to close is taken from the due date
timeToCloseStep_fromDue(acc, issue) ==
    LET createdDate == Date(issue.due)
        updatedDate == Date(issue.updated)
        timeDiffMs == Minus(updatedDate, createdDate)
    IN  [totalTimeToClose |-> Plus(acc.totalTimeToClose, timeDiffMs),
         timeToCloseArray |-> Append(acc.timeToCloseArray, [issue |-> issue, timeMs |-> timeDiffMs])]

timeToCloseStep(acc, issue) ==
    LET createdDate == Date(issue.created)
        updatedDate == Date(issue.updated)
        timeDiffMs == Minus(updatedDate, createdDate)
    IN  [totalTimeToClose |-> Plus(acc.totalTimeToClose, timeDiffMs),
         timeToCloseArray |-> Append(acc.timeToCloseArray, [issue |-> issue, timeMs |-> timeDiffMs])]

timeToClose(issues) ==
    LET hpc == highPriorityClosed(issues)
        after[i \in 0..Len(hpc)] ==
            IF i = 0
            THEN [totalTimeToClose |-> [nan |-> FALSE, t |-> 0], timeToCloseArray |-> <<>>]
            ELSE timeToCloseStep(after[i - 1], hpc[i])
    IN  after[Len(hpc)]

highPriorityAnalysis(issues) ==
    LET hpc == highPriorityClosed(issues)
        totalTimeToClose == timeToClose(issues).totalTimeToClose
        averageTimeToCloseMs ==
            IF Len(hpc) > 0
            THEN IF totalTimeToClose.nan THEN NaN ELSE FDiv(totalTimeToClose.t, Len(hpc))
            ELSE Zero
        averageTimeToCloseHours == FDivInt(averageTimeToCloseMs, MsPerHour)
        averageTimeToCloseDays == FDivInt(averageTimeToCloseHours, 24)
    IN  [averageTimeToCloseHours |-> Round2(averageTimeToCloseHours),
         averageTimeToCloseDays |-> Round2(averageTimeToCloseDays),
         totalClosedHighPriority |-> Len(hpc)]

\* faulty variant: the reducer keeps the shorter entry (< for >)
longestStep_shortest(longest, current) ==
    IF longest = <<>> \/ Greater(longest[1].timeMs, current.timeMs)
    THEN <<current>>
    ELSE longest

\* faulty variant: && for ||, so that null is never replaced
longestStep_and(longest, current) ==
    IF longest # <<>> /\ Greater(current.timeMs, longest[1].timeMs)
    THEN <<current>>
    ELSE longest

\* faulty variant: the reducer also replaces the entry on an equal duration (>= for >)
longestStep_last(longest, current) ==
    IF longest = <<>> \/ LessEq(longest[1].timeMs, current.timeMs)
    THEN <<current>>
    ELSE longest

\* the reducer of longestEntry; null is the empty sequence, an entry <<entry>>
longestStep(longest, current) ==
    IF longest = <<>> \/ Greater(current.timeMs, longest[1].timeMs)
    THEN <<current>>
    ELSE longest

longestEntry(issues) ==
    LET timeToCloseArray == timeToClose(issues).timeToCloseArray
        after[i \in 0..Len(timeToCloseArray)] ==
            IF i = 0 THEN <<>> ELSE longestStep(after[i - 1], timeToCloseArray[i])
    IN  after[Len(timeToCloseArray)]

longestToSolveHighPriority(issues) ==
    LET le == longestEntry(issues)
    IN  IF le # <<>>
        THEN [issueId |-> le[1].issue.id,
              timeToSolveHours |->
                  Round2(IF le[1].timeMs.nan THEN NaN ELSE FDiv(le[1].timeMs.t, MsPerHour)),
              timeToSolveDays |->
                  Round2(IF le[1].timeMs.nan THEN NaN ELSE FDiv(le[1].timeMs.t, MsPerDay)),
              satisfactionRatingScore |->
                  IF Score(le[1].issue) # <<>> THEN Score(le[1].issue) ELSE NA]
        ELSE [issueId |-> 0, timeToSolveHours |-> Zero, timeToSolveDays |-> Zero,
              satisfactionRatingScore |-> NA]

typeStep(issuesByType, issue) ==
    LET type == toLowerCase(issue.type)
    IN  Put(issuesByType, type, OrZeroPlusOne(Lookup(issuesByType, type)))

issuesByType(issues) ==
    LET after[i \in 0..Len(issues)] ==
            IF i = 0 THEN <<>> ELSE typeStep(after[i - 1], issues[i])
    IN  after[Len(issues)]

satisfactionStep(satisfactionByPriority, issue) ==
    LET priority == toLowerCase(issue.priority)
        init == IF ~Has(satisfactionByPriority, priority) /\ priority # constructor
                THEN Put(satisfactionByPriority, priority, [scores |-> <<>>])
                ELSE satisfactionByPriority
    IN  IF Score(issue) # <<>> /\ Has(init, priority)
        THEN Put(init, priority, [scores |-> Append(Get(init, priority).scores, Score(issue))])
        ELSE init

satisfactionByPriority(issues) ==
    LET after[i \in 0..Len(issues)] ==
            IF i = 0 THEN <<>> ELSE satisfactionStep(after[i - 1], issues[i])
    IN  after[Len(issues)]

scoreCountStep(scoreCounts, score) ==
    Put(scoreCounts, score, OrZeroPlusOne(Lookup(scoreCounts, score)))

\* faulty variant: the reducer keeps the accumulator on an equal count (>= for >)
mostCommon_first(scores) ==
    LET counted[i \in 0..Len(scores)] ==
            IF i = 0 THEN <<>> ELSE scoreCountStep(counted[i - 1], scores[i])
        scoreCounts == counted[Len(scores)]
        keys == Keys(scoreCounts)
        pick(a, b) == IF GreaterValue(Get(scoreCounts, b), Get(scoreCounts, a)) THEN b ELSE a
        reduced[i \in 1..Len(keys)] ==
            IF i = 1 THEN keys[1] ELSE pick(reduced[i - 1], keys[i])
    IN  reduced[Len(keys)]

\* Object.keys(scoreCounts).reduce((a, b) => scoreCounts[a] > scoreCounts[b] ? a : b)
mostCommon(scores) ==
    LET counted[i \in 0..Len(scores)] ==
            IF i = 0 THEN <<>> ELSE scoreCountStep(counted[i - 1], scores[i])
        scoreCounts == counted[Len(scores)]
        keys == Keys(scoreCounts)
        pick(a, b) == IF GreaterValue(Get(scoreCounts, a), Get(scoreCounts, b)) THEN a ELSE b
        reduced[i \in 1..Len(keys)] ==
            IF i = 1 THEN keys[1] ELSE pick(reduced[i - 1], keys[i])
    IN  reduced[Len(keys)]

averageSatisfactionByPriority(issues) ==
    LET sbp == satisfactionByPriority(issues)
        step(acc, priority) ==
            LET scores == Get(sbp, priority).scores
            IN  IF Len(scores) > 0 THEN Put(acc, priority, mostCommon(scores)) ELSE acc
        keys == Keys(sbp)
        after[i \in 0..Len(keys)] ==
            IF i = 0 THEN <<>> ELSE step(after[i - 1], keys[i])
    IN  after[Len(keys)]

\* faulty variant: issuesClosedCount and issuesOpenCount count the resolved
\* and the unresolved records
additionalInsights_resolved(issues) ==
    [totalIssues |-> Len(issues),
     issuesByType |-> issuesByType(issues),
     averageSatisfactionByPriority |-> averageSatisfactionByPriority(issues),
     issuesClosedCount |-> statusCounts(issues).closed + statusCounts(issues).solved,
     issuesOpenCount |-> statusCounts(issues).open + statusCounts(issues).pending
                             + statusCounts(issues).hold + statusCounts(issues).new]

additionalInsights(issues) ==
    [totalIssues |-> Len(issues),
     issuesByType |-> issuesByType(issues),
     averageSatisfactionByPriority |-> averageSatisfactionByPriority(issues),
     issuesClosedCount |-> statusCounts(issues).closed,
     issuesOpenCount |-> statusCounts(issues).open]

\* faulty variant: the report is sent without its last section
result_partial(issues, date) ==
    [statusBreakdown |-> statusBreakdown(issues),
     priorityBreakdown |-> priorityBreakdown(issues),
     resolutionTimeliness |-> resolutionTimeliness(issues, date),
     highPriorityAnalysis |-> highPriorityAnalysis(issues),
     longestToSolveHighPriority |-> longestToSolveHighPriority(issues)]

\* the AnalysisResult sent for a non-empty issues array; date is the
\* constant now
result(issues, date) ==
    [statusBreakdown |-> statusBreakdown(issues),
     priorityBreakdown |-> priorityBreakdown(issues),
     resolutionTimeliness |-> resolutionTimeliness(issues, date),
     highPriorityAnalysis |-> highPriorityAnalysis(issues),
     longestToSolveHighPriority |-> longestToSolveHighPriority(issues),
     additionalInsights |-> additionalInsights(issues)]


----------------------------------------------------------------------------
(* The upstream service and the tickets it serves.                         *)

MaxLen == 3

MaxTicks == 1

\* the abandoned fetches of a component that are followed
MaxPending == 1

Ticket(created, updated, due, status, type, priority, rating) ==
    [id |-> 0, created |-> created, updated |-> updated, due |-> due,
     status |-> status, type |-> type, priority |-> priority,
     satisfaction_rating |-> rating]

good == <<"g","o","o","d">>
bad == <<"b","a","d">>
excellent == <<"e","x","c","e","l","l","e","n","t">>
problem == <<"p","r","o","b","l","e","m">>
question == <<"q","u","e","s","t","i","o","n">>
task == <<"t","a","s","k">>

\* the tickets the upstream service may hold, in the shape of
\* SampleData['results'][0] restricted to the fields the handler reads
Pool ==
    << Ticket(<<5,9,0>>, <<5,10,0>>, <<5,11,0>>, <<"O","p","e","n">>,
              <<"P","r","o","b","l","e","m">>, <<"H","i","g","h">>, <<[score |-> good]>>),
       Ticket(<<5,8,0>>, <<5,10,0>>, <<5,11,0>>, closed, question, high, <<[score |-> bad]>>),
       Ticket(<<5,8,0>>, <<5,18,0>>, <<5,9,0>>, <<"S","O","L","V","E","D">>,
              problem, <<"H","I","G","H">>, <<>>),
       Ticket(<<5,10,0>>, <<5,2,3>>, <<5,2,3>>, closed, task, high, <<[score |-> good]>>),
       Ticket(<<5,7,0>>, <<5,7,30>>, <<5,8,0>>, <<"a","r","c","h","i","v","e","d">>,
              <<"i","n","c","i","d","e","n","t">>, <<"u","r","g","e","n","t">>,
              <<[score |-> good]>>),
       Ticket(<<5,9,0>>, <<5,12,0>>, <<5,11,0>>, <<"C","l","o","s","e","d">>,
              question, normal, <<[score |-> excellent]>>),
       Ticket(<<5,11,0>>, <<5,11,10>>, <<5,11,30>>, pending, task, low, <<[score |-> bad]>>),
       Ticket(<<5,6,0>>, <<5,6,30>>, <<5,9,0>>, new, problem, <<"N","o","r","m","a","l">>, <<>>) >>

\* a results array: tickets of the pool with ids unique within the batch
Results(sel) == [i \in 1..Len(sel) |-> [Pool[sel[i]] EXCEPT !.id = i]]

Selections(n) == UNION {[1..k -> 1..Len(Pool)] : k \in 0..n}

\* what axios.get(DATA_URL) settles with: a rejection, or a response whose
\* data has results (<<array>>) or lacks it (<<>>); arrays of up to n tickets
Upstreams(n) ==
    {[ok |-> FALSE, isError |-> TRUE, message |-> "Network Error", results |-> <<>>],
     [ok |-> FALSE, isError |-> FALSE, message |-> "", results |-> <<>>],
     [ok |-> TRUE, isError |-> FALSE, message |-> "", results |-> <<>>]}
    \cup {[ok |-> TRUE, isError |-> FALSE, message |-> "", results |-> <<Results(sel)>>] :
             sel \in Selections(n)}

\* tickets as an upstream service that does not keep to SampleData may send
\* them: a missing status, and the lowercase spelling of an inherited
\* property name as a type, a priority or a score
RawPool ==
    << Pool[1],
       Pool[2],
       Ticket(<<5,9,0>>, <<5,10,0>>, <<5,11,0>>, undefined, problem, high, <<[score |-> good]>>),
       Ticket(<<5,9,0>>, <<5,10,0>>, <<5,11,0>>, closed,
              <<"C","o","n","s","t","r","u","c","t","o","r">>, normal, <<>>),
       Ticket(<<5,9,0>>, <<5,10,0>>, <<5,11,0>>, open, task, constructor, <<[score |-> bad]>>),
       Ticket(<<5,8,0>>, <<5,9,0>>, <<5,11,0>>, solved, task, high, <<[score |-> constructor]>>) >>

RawResults(sel) == [i \in 1..Len(sel) |-> [RawPool[sel[i]] EXCEPT !.id = i]]

RawUpstreams(n) ==
    {[ok |-> FALSE, isError |-> TRUE, message |-> "Network Error", results |-> <<>>],
     [ok |-> FALSE, isError |-> FALSE, message |-> "", results |-> <<>>]}
    \cup {[ok |-> TRUE, isError |-> FALSE, message |-> "", results |-> <<RawResults(sel)>>] :
             sel \in UNION {[1..k -> 1..Len(RawPool)] : k \in 0..n}}

\* tickets with a timestamp that Date cannot parse, such as the empty string
\* or a day 00, among tickets with sound timestamps
DatePool ==
    << Ticket(<<0,0,0>>, <<5,10,0>>, <<5,11,0>>, closed, problem, high, <<[score |-> good]>>),
       Pool[2],
       Ticket(<<5,9,0>>, <<5,10,0>>, <<>>, open, task, normal, <<>>),
       Ticket(<<5,9,0>>, <<>>, <<5,11,0>>, solved, question, low, <<[score |-> bad]>>) >>

DateUpstreams(n) ==
    {[ok |-> FALSE, isError |-> TRUE, message |-> "Network Error", results |-> <<>>]}
    \cup
    {[ok |-> TRUE, isError |-> FALSE, message |-> "",
      results |-> <<[i \in 1..Len(sel) |-> [DatePool[sel[i]] EXCEPT !.id = i]]>>] :
         sel \in UNION {[1..k -> 1..Len(DatePool)] : k \in 0..n}}

\* tickets of one priority whose scores are words and numerals
ScorePool ==
    << Ticket(<<5,9,0>>, <<5,10,0>>, <<5,11,0>>, open, task, high, <<[score |-> good]>>),
       Ticket(<<5,9,0>>, <<5,10,0>>, <<5,11,0>>, open, task, high, <<[score |-> bad]>>),
       Ticket(<<5,9,0>>, <<5,10,0>>, <<5,11,0>>, open, task, high, <<[score |-> <<"5">>]>>),
       Ticket(<<5,9,0>>, <<5,10,0>>, <<5,11,0>>, open, task, high, <<[score |-> <<"3">>]>>),
       Ticket(<<5,9,0>>, <<5,10,0>>, <<5,11,0>>, open, task, <<"L","o","w">>,
              <<[score |-> <<"1","0">>]>>) >>

ScoreUpstreams(n) ==
    {[ok |-> FALSE, isError |-> TRUE, message |-> "Network Error", results |-> <<>>]}
    \cup
    {[ok |-> TRUE, isError |-> FALSE, message |-> "",
      results |-> <<[i \in 1..Len(sel) |-> [ScorePool[sel[i]] EXCEPT !.id = i]]>>] :
         sel \in UNION {[1..k -> 1..Len(ScorePool)] : k \in 0..n}}

\* the results of the fixture mockDataExtended
mockDataExtended ==
    << [Ticket(<<5,10,16,58,750>>, <<5,14,51,58,750>>, <<5,15,3,58,750>>, open, problem, high,
               <<[score |-> good]>>) EXCEPT !.id = 1],
       [Ticket(<<5,9,0>>, <<5,10,0>>, <<5,11,0>>, closed, question, normal,
               <<[score |-> excellent]>>) EXCEPT !.id = 2],
       [Ticket(<<5,8,0>>, <<5,12,0>>, <<5,9,0>>, closed, task, high,
               <<[score |-> bad]>>) EXCEPT !.id = 3],
       [Ticket(<<5,11,0>>, <<5,11,30>>, <<5,20,0>>, pending, problem, low,
               <<[score |-> good]>>) EXCEPT !.id = 4] >>

\* instants at which the fixture is analyzed: the hours of the 5th and 6th of
\* December 2024 from 09:00 to 21:00, and the millisecond of each due date
\* of an unresolved record with the millisecond after it
FixtureInstants ==
    {Date(<<day, hour, 0>>).t : day \in {5, 6}, hour \in {9, 12, 15, 16, 20, 21}}
    \cup {Date(<<5,15,3,58,750>>).t, Date(<<5,15,3,58,751>>).t, Date(<<5,20,0,0,1>>).t}

\* the instant of the first request and the step of the clock
ClockStart == Date(<<5,11,0>>).t

TickMs == 30 * 60 * 1000

----------------------------------------------------------------------------
(* The ServiceDesk component: the list it shows is a function of the data  *)
(* fetched, the checkbox and the search box.                                *)

priorityOrder == (high :> 1) @@ (normal :> 2) @@ (low :> 3)

\* priorityOrder[p] || 99 as an operand of -: the rank, 99 for an absent key,
\* and NaN for the function that the key constructor inherits
priorityNumber(p) ==
    IF p \in DOMAIN priorityOrder THEN [nan |-> FALSE, t |-> priorityOrder[p]]
    ELSE IF p = constructor THEN [nan |-> TRUE, t |-> 0]
    ELSE [nan |-> FALSE, t |-> 99]

\* the comparator given to sort, as sort reads it: a NaN result counts as +0
SortCompare(a, b) ==
    LET v == Minus(priorityNumber(toLowerCase(a.priority)),
                   priorityNumber(toLowerCase(b.priority)))
    IN  IF v.nan THEN 0 ELSE v.t

\* whether the comparator is a consistent comparator for the elements of arr
Consistent(arr) ==
    LET c(i, j) == SortCompare(arr[i], arr[j])
        I == 1..Len(arr)
    IN  /\ \A i, j \in I : (c(i, j) < 0) <=> (c(j, i) > 0)
        /\ \A i, j, k \in I :
               /\ (c(i, j) = 0 /\ c(j, k) = 0) => c(i, k) = 0
               /\ (c(i, j) < 0 /\ c(j, k) < 0) => c(i, k) < 0
               /\ (c(i, j) > 0 /\ c(j, k) > 0) => c(i, k) > 0

\* x put into the sorted sequence behind every element that is not greater
Insert(sorted, x) ==
    LET k == CHOOSE k \in 0..Len(sorted) :
                 /\ \A j \in (k + 1)..Len(sorted) : SortCompare(sorted[j], x) > 0
                 /\ k = 0 \/ SortCompare(sorted[k], x) <= 0
    IN  SubSeq(sorted, 1, k) \o <<x>> \o SubSeq(sorted, k + 1, Len(sorted))

\* the stable sort of arr
StableSort(arr) ==
    LET after[i \in 0..Len(arr)] == IF i = 0 THEN <<>> ELSE Insert(after[i - 1], arr[i])
    IN  after[Len(arr)]

\* the arrangements of the elements of arr
Orders(arr) ==
    {[i \in 1..Len(arr) |-> arr[p[i]]] :
        p \in {q \in [1..Len(arr) -> 1..Len(arr)] : \A i, j \in 1..Len(arr) : q[i] = q[j] => i = j}}

\* Array.prototype.sort: the stable sort under a consistent comparator, an
\* implementation-defined order of the elements otherwise
sort(arr) == IF Consistent(arr) THEN {StableSort(arr)} ELSE Orders(arr)

\* String.prototype.trim, for the white space " "
trim(str) ==
    LET ink == {i \in 1..Len(str) : str[i] # " "}
    IN  IF ink = {} THEN <<>>
        ELSE SubSeq(str, CHOOSE i \in ink : \A j \in ink : i <= j,
                         CHOOSE i \in ink : \A j \in ink : j <= i)

\* String.prototype.includes
includes(str, searchString) ==
    \E i \in 0..(Len(str) - Len(searchString)) :
        SubSeq(str, i + 1, i + Len(searchString)) = searchString

\* faulty variant: the checkbox keeps the issues that are open or high
isOpenHighPriority_either(issue) ==
    toLowerCase(issue.status) = open \/ toLowerCase(issue.priority) = high

\* the callback of the checkbox filter
isOpenHighPriority(issue) ==
    toLowerCase(issue.status) = open /\ toLowerCase(issue.priority) = high

\* the issues of the memo before they are sorted
filtered(results, filterOpenHighPriority, searchTerm) ==
    LET searchLower == toLowerCase(searchTerm)
        matches(issue) == includes(toLowerCase(issue.organization_id), searchLower)
        searched == IF trim(searchTerm) # <<>> THEN SelectSeq(results, matches) ELSE results
    IN  IF filterOpenHighPriority THEN SelectSeq(searched, isOpenHighPriority) ELSE searched

\* the values the memo can take; data is <<>> or <<the SampleData fetched>>
filteredAndSortedIssues(data, filterOpenHighPriority, searchTerm) ==
    IF data = <<>> THEN {<<>>}
    ELSE sort(filtered(data[1].results, filterOpenHighPriority, searchTerm))

\* faulty variant: issues starts as data.results itself, so that the sort
\* arranges the fetched array when no filter has replaced it
resultsAfter_noCopy(results, filterOpenHighPriority, searchTerm, issues) ==
    IF ~filterOpenHighPriority /\ trim(searchTerm) = <<>> THEN issues ELSE results

\* data.results after the memo has run and returned issues: the memo filters
\* and sorts issues, which starts as a copy, [...data.results]
resultsAfter(results, filterOpenHighPriority, searchTerm, issues) == results

\* the issues /api/issues may answer with, in the fields the list reads
DeskTicket(status, priority, organization_id, type, rating) ==
    [id |-> 0, status |-> status, priority |-> priority, organization_id |-> organization_id,
     type |-> type, satisfaction_rating |-> rating]

DeskPool ==
    << DeskTicket(<<"O","p","e","n">>, <<"H","i","g","h">>, <<"A","c","m","e"," ","C","o","r","p">>,
                  <<"P","r","o","b","l","e","m">>, <<[score |-> good]>>),
       DeskTicket(closed, normal, <<"T","e","c","h"," ","I","n","c">>, question, <<>>),
       DeskTicket(open, low, <<"A","C","M","E"," ","L","t","d">>, problem, <<[score |-> bad]>>),
       DeskTicket(pending, <<"u","r","g","e","n","t">>, <<"a","c","m","e">>, task,
                  <<[score |-> good]>>),
       DeskTicket(closed, high, <<"Z","e","t","a">>, task, <<>>),
       DeskTicket(open, constructor, <<"Z","e","t","a">>, question, <<[score |-> NA]>>) >>

DeskData(n) ==
    {[results |-> [i \in 1..Len(sel) |-> [DeskPool[sel[i]] EXCEPT !.id = i]]] :
        sel \in UNION {[1..k -> 1..Len(DeskPool)] : k \in 0..n}}

\* one turn of the forEach of dashboardStats: obj[key] = (obj[key] || 0) + 1
\* in each of the four maps
statsStep(stats, issue) ==
    LET priority == toLowerCase(issue.priority)
        type == toLowerCase(issue.type)
        status == toLowerCase(issue.status)
        satisfaction == IF Score(issue) # <<>> THEN Score(issue) ELSE NA
        count(obj, key) == Put(obj, key, OrZeroPlusOne(Lookup(obj, key)))
    IN  [byPriority |-> count(stats.byPriority, priority),
         byType |-> count(stats.byType, type),
         byStatus |-> count(stats.byStatus, status),
         bySatisfaction |-> count(stats.bySatisfaction, satisfaction)]

\* the memo dashboardStats; data is <<>> or <<the SampleData fetched>>
dashboardStats(data) ==
    LET none == [byPriority |-> <<>>, byType |-> <<>>, byStatus |-> <<>>,
                 bySatisfaction |-> <<>>]
        after[i \in 0..(IF data = <<>> THEN 0 ELSE Len(data[1].results))] ==
            IF i = 0 THEN none ELSE statsStep(after[i - 1], data[1].results[i])
    IN  IF data = <<>> THEN none ELSE after[Len(data[1].results)]

\* obj[key] || 0 as the Summary card shows it
OrZero(v) == IF Truthy(v) THEN v ELSE Number(0)

\* the Summary card of the dashboard
Summary(data) ==
    [totalTickets |-> Number(Len(data[1].results)),
     openTickets |-> OrZero(Lookup(dashboardStats(data).byStatus, open)),
     highPriority |-> OrZero(Lookup(dashboardStats(data).byPriority, high)),
     closedTickets |-> OrZero(Lookup(dashboardStats(data).byStatus, closed))]

\* what axios.get(DATA_URL) settles with in /api/issues: a rejection, or a
\* response whose data is a SampleData of up to n issues
DeskUpstreams(n) ==
    {[ok |-> FALSE, isError |-> TRUE, message |-> "Network Error", results |-> <<>>]}
    \cup {[ok |-> TRUE, isError |-> FALSE, message |-> "", results |-> <<allData.results>>] :
             allData \in DeskData(n)}

\* what the operator may have in the search box
SearchTerms ==
    {<<>>, <<" "," ">>, <<"A","c","m","e">>, <<" ","a","c","m","e">>, <<"t","a">>}

----------------------------------------------------------------------------
(* The handler GET /api/analyze as a process per request.                  *)

\* upstream: what the upstream service answers; clock: the current instant;
\* per request: pc, the handler's position; now, its constant now (new Date());
\* res, the responses it has sent through res.json
VARIABLES upstream, clock, pc, now, res

\* the browser: activeTab, the state of App; desk, the state of the mounted
\* ServiceDesk component (its useState values and its memoized list)
VARIABLES activeTab, desk

\* analysis, the state of the mounted Analysis component; abandoned, for each
\* component the fetches still in flight whose instance was unmounted (their
\* closures have mounted = false); afterUnmount, whether such a fetch has
\* settled, and the setters the unmounted instances have called
VARIABLES analysis, abandoned, afterUnmount

\* the handler GET /api/issues: pc, its position; res, what it has sent;
\* rejected, the failure its promise rejected with
VARIABLE proxy

client == <<activeTab, desk, analysis, abandoned, afterUnmount>>

vars == <<upstream, clock, pc, now, res, proxy, activeTab, desk, analysis, abandoned, afterUnmount>>

\* the state of a ServiceDesk component when it mounts
DeskMount ==
    [data |-> <<>>, loading |-> TRUE, error |-> <<>>, viewMode |-> "list",
     filterOpenHighPriority |-> FALSE, searchTerm |-> <<>>,
     filteredAndSortedIssues |-> <<>>]

\* the state of an Analysis component when it mounts
AnalysisMount == [data |-> <<>>, loading |-> TRUE, error |-> <<>>]

Components == {"ServiceDesk", "Analysis"}

\* the page as it first renders
ClientInit ==
    /\ activeTab = "service-desk"
    /\ desk = DeskMount
    /\ analysis = AnalysisMount
    /\ abandoned = [c \in Components |-> 0]
    /\ afterUnmount = [settled |-> FALSE, calls |-> {}]

ProxyInit == proxy = [pc |-> "idle", res |-> <<>>, rejected |-> <<>>]

Reqs == {1, 2}

InitWith(n) ==
    /\ upstream \in Upstreams(n)
    /\ clock = ClockStart
    /\ pc = [r \in Reqs |-> "idle"]
    /\ now = [r \in Reqs |-> [nan |-> FALSE, t |-> 0]]
    /\ res = [r \in Reqs |-> <<>>]
    /\ ProxyInit
    /\ ClientInit

Init == InitWith(MaxLen)

\* the handler is invoked and awaits axios.get
Request(r) ==
    /\ pc[r] = "idle"
    /\ pc' = [pc EXCEPT ![r] = "fetching"]
    /\ UNCHANGED <<upstream, clock, now, res, proxy, client>>

\* faulty variant: the empty case answers without res.status(404)
analyze_noStatus(data, date) ==
    IF data.results = <<>> \/ Len(data.results[1]) = 0
    THEN [status |-> 200, body |-> [error |-> "No data found"]]
    ELSE [status |-> 200, body |-> result(data.results[1], date)]

\* the body of the try block after the await, for the data fetched; date is
\* what new Date() returns
analyze(data, date) ==
    IF data.results = <<>> \/ Len(data.results[1]) = 0
    THEN [status |-> 404, body |-> [error |-> "No data found"]]
    ELSE [status |-> 200, body |-> result(data.results[1], date)]

\* the exception the computation throws on the issues, <<>> if none: a
\* TypeError of toLowerCase on a missing status, priority or type, else one of
\* push on the scores of the inherited constructor
thrown(issues) ==
    IF \E i \in 1..Len(issues) :
           undefined \in {issues[i].status, issues[i].priority, issues[i].type}
    THEN <<[isError |-> TRUE,
            message |-> "Cannot read properties of undefined (reading 'toLowerCase')"]>>
    ELSE IF \E i \in 1..Len(issues) :
                toLowerCase(issues[i].priority) = constructor /\ Score(issues[i]) # <<>>
    THEN <<[isError |-> TRUE,
            message |-> "Cannot read properties of undefined (reading 'push')"]>>
    ELSE <<>>

\* the exception thrown in the try block after the await, for the data fetched
failure(data) ==
    IF data.results = <<>> \/ Len(data.results[1]) = 0 THEN <<>>
    ELSE thrown(data.results[1])

\* whether the try block reads new Date() before it throws: the status and
\* priority loops come before it, the type and satisfaction loops after
readsNow(data) ==
    \A i \in 1..Len(data.results[1]) :
        undefined \notin {data.results[1][i].status, data.results[1][i].priority}

\* faulty variant: the counters live outside the handler, so that an
\* invocation also counts the issues an earlier one has processed
Respond_shared(r) ==
    /\ pc[r] = "fetching"
    /\ upstream.ok
    /\ failure(upstream) = <<>>
    /\ LET seen == IF \E q \in Reqs \ {r} : pc[q] = "done" /\ upstream.results # <<>>
                   THEN upstream.results[1] ELSE <<>>
           data == IF upstream.results = <<>> THEN upstream
                   ELSE [upstream EXCEPT !.results = <<seen \o upstream.results[1]>>]
       IN  /\ now' = IF analyze(data, now[r]).status = 404 THEN now
                     ELSE [now EXCEPT ![r] = [nan |-> FALSE, t |-> clock]]
           /\ res' = [res EXCEPT ![r] = Append(@, analyze(data, now'[r]))]
    /\ pc' = [pc EXCEPT ![r] = "done"]
    /\ UNCHANGED <<upstream, clock, proxy, client>>

\* axios.get resolves; the rest of the handler runs to completion
Respond(r) ==
    /\ pc[r] = "fetching"
    /\ upstream.ok
    /\ failure(upstream) = <<>>
    /\ now' = IF analyze(upstream, now[r]).status = 404 THEN now
              ELSE [now EXCEPT ![r] = [nan |-> FALSE, t |-> clock]]
    /\ res' = [res EXCEPT ![r] = Append(@, analyze(upstream, now'[r]))]
    /\ pc' = [pc EXCEPT ![r] = "done"]
    /\ UNCHANGED <<upstream, clock, proxy, client>>

\* faulty variant: the catch block never passes the failure's message on
Catch_unknown(r) ==
    /\ pc[r] = "fetching"
    /\ ~upstream.ok \/ failure(upstream) # <<>>
    /\ res' = [res EXCEPT ![r] = Append(@,
                  [status |-> 500,
                   body |-> [error |-> "Failed to analyze data", message |-> "Unknown error"]])]
    /\ pc' = [pc EXCEPT ![r] = "done"]
    /\ UNCHANGED <<upstream, clock, now, proxy, client>>

\* axios.get rejects, or the computation throws; the catch block answers
Catch(r) ==
    /\ pc[r] = "fetching"
    /\ ~upstream.ok \/ failure(upstream) # <<>>
    /\ LET error == IF ~upstream.ok
                     THEN [isError |-> upstream.isError, message |-> upstream.message]
                     ELSE failure(upstream)[1]
       IN  res' = [res EXCEPT ![r] = Append(@,
                      [status |-> 500,
                       body |-> [error |-> "Failed to analyze data",
                                 message |-> IF error.isError THEN error.message
                                             ELSE "Unknown error"]])]
    /\ now' = IF upstream.ok /\ readsNow(upstream)
              THEN [now EXCEPT ![r] = [nan |-> FALSE, t |-> clock]]
              ELSE now
    /\ pc' = [pc EXCEPT ![r] = "done"]
    /\ UNCHANGED <<upstream, clock, proxy, client>>

\* time passes
Tick ==
    /\ clock < ClockStart + MaxTicks * TickMs
    /\ clock' = clock + TickMs
    /\ UNCHANGED <<upstream, pc, now, res, proxy, client>>

\* one request
Next ==
    \/ Request(1)
    \/ Respond(1)
    \/ Catch(1)
    \/ Tick

Spec == Init /\ [][Next]_vars

----------------------------------------------------------------------------
(* The handler GET /api/issues.                                             *)

\* a request arrives: the handler calls axios.get and awaits it
ProxyRequest ==
    /\ proxy.pc = "idle"
    /\ proxy' = [proxy EXCEPT !.pc = "fetching"]
    /\ UNCHANGED <<upstream, clock, pc, now, res, client>>

\* faulty variant: the handler answers whether or not the fetch succeeded
ProxySend_always ==
    /\ proxy.pc = "fetching"
    /\ proxy' = [proxy EXCEPT !.pc = "done",
                              !.res = Append(@, [status |-> 200, body |-> upstream.results])]
    /\ UNCHANGED <<upstream, clock, pc, now, res, client>>

\* axios.get resolves: res.send(data) with the data of the response
ProxySend ==
    /\ proxy.pc = "fetching"
    /\ upstream.ok
    /\ proxy' = [proxy EXCEPT !.pc = "done",
                              !.res = Append(@, [status |-> 200, body |-> upstream.results])]
    /\ UNCHANGED <<upstream, clock, pc, now, res, client>>

\* axios.get rejects: the await throws, nothing catches it, and the promise
\* of the handler rejects with it
ProxyReject ==
    /\ proxy.pc = "fetching"
    /\ ~upstream.ok
    /\ proxy' = [proxy EXCEPT !.pc = "rejected",
                              !.rejected = <<[isError |-> upstream.isError,
                                              message |-> upstream.message]>>]
    /\ UNCHANGED <<upstream, clock, pc, now, res, client>>

NextIssues ==
    \/ ProxyRequest
    \/ ProxySend
    \/ ProxyReject

SpecIssues == Init /\ [][NextIssues]_vars

----------------------------------------------------------------------------

\* two requests, which may overlap while they await the upstream service
InitPair == InitWith(MaxLen - 1)

NextPair ==
    \/ \E r \in Reqs : Request(r)
    \/ \E r \in Reqs : Respond(r)
    \/ \E r \in Reqs : Catch(r)
    \/ Tick

SpecPair == InitPair /\ [][NextPair]_vars

\* one request to an upstream service that may send any ticket of RawPool
InitRaw ==
    /\ upstream \in RawUpstreams(MaxLen)
    /\ clock = ClockStart
    /\ pc = [r \in Reqs |-> "idle"]
    /\ now = [r \in Reqs |-> [nan |-> FALSE, t |-> 0]]
    /\ res = [r \in Reqs |-> <<>>]
    /\ ProxyInit
    /\ ClientInit

SpecRaw == InitRaw /\ [][Next]_vars

\* one request to an upstream service that may send any ticket of DatePool
InitDates ==
    /\ upstream \in DateUpstreams(MaxLen)
    /\ clock = ClockStart
    /\ pc = [r \in Reqs |-> "idle"]
    /\ now = [r \in Reqs |-> [nan |-> FALSE, t |-> 0]]
    /\ res = [r \in Reqs |-> <<>>]
    /\ ProxyInit
    /\ ClientInit

SpecDates == InitDates /\ [][Next]_vars

\* requests to an upstream service that holds the fixture, at some instant
InitFixture ==
    /\ upstream = [ok |-> TRUE, isError |-> FALSE, message |-> "",
                   results |-> <<mockDataExtended>>]
    /\ clock \in FixtureInstants
    /\ pc = [r \in Reqs |-> "idle"]
    /\ now = [r \in Reqs |-> [nan |-> FALSE, t |-> 0]]
    /\ res = [r \in Reqs |-> <<>>]
    /\ ProxyInit
    /\ ClientInit

NextFixture ==
    \/ \E r \in Reqs : Request(r)
    \/ \E r \in Reqs : Respond(r)

SpecFixture == InitFixture /\ [][NextFixture]_vars

\* one request to an upstream service that may send any ticket of ScorePool
InitScores ==
    /\ upstream \in ScoreUpstreams(MaxLen)
    /\ clock = ClockStart
    /\ pc = [r \in Reqs |-> "idle"]
    /\ now = [r \in Reqs |-> [nan |-> FALSE, t |-> 0]]
    /\ res = [r \in Reqs |-> <<>>]
    /\ ProxyInit
    /\ ClientInit

SpecScores == InitScores /\ [][Next]_vars

----------------------------------------------------------------------------
(* The page: App with its tabs, and the ServiceDesk component it mounts    *)
(* while the Service Desk tab is active.                                    *)

Tabs == {"service-desk", "backend-analysis", "raw-data"}

server == <<upstream, clock, pc, now, res, proxy>>

\* faulty variant: the Analysis view stays when the Raw Data tab is active
rendered_stale(view) ==
    \/ view = "ServiceDesk" /\ activeTab = "service-desk"
    \/ view = "Analysis" /\ activeTab \in {"backend-analysis", "raw-data"}
    \/ view = "Data" /\ activeTab = "raw-data"

\* the conditional rendering of App
rendered(view) ==
    \/ view = "ServiceDesk" /\ activeTab = "service-desk"
    \/ view = "Analysis" /\ activeTab = "backend-analysis"
    \/ view = "Data" /\ activeTab = "raw-data"

\* faulty variant: the finally block calls setLoading(false) unguarded
setCalls_finally(mounted, ok) ==
    IF ~mounted THEN {"setLoading"}
    ELSE IF ok THEN {"setData", "setError", "setLoading"}
    ELSE {"setError", "setLoading"}

\* the setters that fetchData and fetchAnalysis call once their await has
\* settled, in an effect whose flag is mounted: ok says that axios.get resolved
setCalls(mounted, ok) ==
    IF ~mounted THEN {}
    ELSE IF ok THEN {"setData", "setError", "setLoading"}
    ELSE {"setError", "setLoading"}

\* the state these calls leave; response is the data axios.get resolved with,
\* err what it rejected with, fallback the message for an err that is no Error
settled(state, mounted, ok, response, err, fallback) ==
    LET calls == setCalls(mounted, ok)
    IN  [state EXCEPT
            !.data = IF "setData" \in calls THEN <<response>> ELSE @,
            !.error = IF "setError" \in calls
                      THEN IF ok THEN <<>>
                           ELSE <<IF err.isError THEN err.message ELSE fallback>>
                      ELSE @,
            !.loading = IF "setLoading" \in calls THEN FALSE ELSE @]

fetchData(state, mounted, ok, response, err) ==
    settled(state, mounted, ok, response, err, "Failed to fetch issues")

fetchAnalysis(state, mounted, ok, response, err) ==
    settled(state, mounted, ok, response, err, "Failed to fetch analysis")

\* what axios.get rejects with: an AxiosError, which is an Error
Rejections ==
    {[isError |-> TRUE, message |-> "Network Error"],
     [isError |-> TRUE, message |-> "Request failed with status code 500"]}

\* the reports /api/analyze may answer with
AnalysisData ==
    {result(Results(sel), [nan |-> FALSE, t |-> ClockStart]) : sel \in Selections(1) \ {<<>>}}

\* faulty variant: the data is tested before the error
render_dataFirst(state) ==
    IF state.loading THEN "loading"
    ELSE IF state.data = <<>> THEN "No data available"
    ELSE IF state.error # <<>> /\ state.error[1] # "" THEN "error"
    ELSE "content"

\* what a component returns for its state: the early returns in their order
render(state) ==
    IF state.loading THEN "loading"
    ELSE IF state.error # <<>> /\ state.error[1] # "" THEN "error"
    ELSE IF state.data = <<>> THEN "No data available"
    ELSE "content"

\* a click on a tab button; the view that goes is unmounted, which runs the
\* cleanup of its effect (mounted = false) and leaves its fetch, if not
\* settled, in flight; the view that comes is mounted afresh
TabClick(tab) ==
    /\ activeTab' = tab
    /\ desk' = IF tab = activeTab THEN desk ELSE DeskMount
    /\ analysis' = IF tab = activeTab THEN analysis ELSE AnalysisMount
    /\ abandoned' =
           IF tab = activeTab THEN abandoned
           ELSE IF rendered("ServiceDesk") /\ desk.loading
           THEN [abandoned EXCEPT !["ServiceDesk"] = Min(@ + 1, MaxPending)]
           ELSE IF rendered("Analysis") /\ analysis.loading
           THEN [abandoned EXCEPT !["Analysis"] = Min(@ + 1, MaxPending)]
           ELSE abandoned
    /\ UNCHANGED <<server, afterUnmount>>

\* the effect's axios.get('/api/issues') resolves in a mounted component,
\* with the body /api/issues got from the upstream service
FetchResolve ==
    /\ activeTab = "service-desk"
    /\ desk.loading
    /\ upstream.ok
    /\ LET allData == [results |-> upstream.results[1]]
           state == fetchData(desk, TRUE, TRUE, allData, <<>>)
       IN  \E issues \in filteredAndSortedIssues(state.data, state.filterOpenHighPriority,
                                                  state.searchTerm) :
               desk' = [state EXCEPT
                           !.filteredAndSortedIssues = issues,
                           !.data = <<[results |->
                                         resultsAfter(allData.results,
                                                      state.filterOpenHighPriority,
                                                      state.searchTerm, issues)]>>]
    /\ UNCHANGED <<server, activeTab, analysis, abandoned, afterUnmount>>

\* it rejects
FetchReject ==
    /\ activeTab = "service-desk"
    /\ desk.loading
    /\ \E err \in Rejections : desk' = fetchData(desk, TRUE, FALSE, <<>>, err)
    /\ UNCHANGED <<server, activeTab, analysis, abandoned, afterUnmount>>

\* the effect's axios.get('/api/analyze') resolves in a mounted component
AnalysisResolve ==
    /\ activeTab = "backend-analysis"
    /\ analysis.loading
    /\ \E analysisData \in AnalysisData :
           analysis' = fetchAnalysis(analysis, TRUE, TRUE, analysisData, <<>>)
    /\ UNCHANGED <<server, activeTab, desk, abandoned, afterUnmount>>

\* it rejects
AnalysisReject ==
    /\ activeTab = "backend-analysis"
    /\ analysis.loading
    /\ \E err \in Rejections : analysis' = fetchAnalysis(analysis, TRUE, FALSE, <<>>, err)
    /\ UNCHANGED <<server, activeTab, desk, abandoned, afterUnmount>>

\* the fetch of an unmounted instance of c settles: its continuation runs
\* with mounted = false, and the state of that instance is no more
AbandonedSettle(c) ==
    /\ abandoned[c] > 0
    /\ abandoned' = [abandoned EXCEPT ![c] = @ - 1]
    /\ \E ok \in BOOLEAN :
           afterUnmount' = [settled |-> TRUE,
                            calls |-> afterUnmount.calls \cup setCalls(FALSE, ok)]
    /\ UNCHANGED <<server, activeTab, desk, analysis>>

\* the list view with its controls is on the page
ListShown ==
    /\ activeTab = "service-desk"
    /\ ~desk.loading
    /\ desk.error = <<>>
    /\ desk.data # <<>>
    /\ desk.viewMode = "list"

\* the operator changes the search box
SetSearchTerm(value) ==
    /\ ListShown
    /\ value # desk.searchTerm
    /\ \E issues \in filteredAndSortedIssues(desk.data, desk.filterOpenHighPriority, value) :
           desk' = [desk EXCEPT
                       !.searchTerm = value,
                       !.filteredAndSortedIssues = issues,
                       !.data = <<[results |->
                                     resultsAfter(desk.data[1].results,
                                                  desk.filterOpenHighPriority, value, issues)]>>]
    /\ UNCHANGED <<server, activeTab, analysis, abandoned, afterUnmount>>

\* the operator clicks the checkbox
SetFilterOpenHighPriority ==
    /\ ListShown
    /\ \E issues \in filteredAndSortedIssues(desk.data, ~desk.filterOpenHighPriority,
                                              desk.searchTerm) :
           desk' = [desk EXCEPT
                       !.filterOpenHighPriority = ~@,
                       !.filteredAndSortedIssues = issues,
                       !.data = <<[results |->
                                     resultsAfter(desk.data[1].results,
                                                  ~desk.filterOpenHighPriority,
                                                  desk.searchTerm, issues)]>>]
    /\ UNCHANGED <<server, activeTab, analysis, abandoned, afterUnmount>>

\* the operator clicks List View or Dashboard
SetViewMode(mode) ==
    /\ activeTab = "service-desk"
    /\ ~desk.loading /\ desk.error = <<>> /\ desk.data # <<>>
    /\ desk' = [desk EXCEPT !.viewMode = mode]
    /\ UNCHANGED <<server, activeTab, analysis, abandoned, afterUnmount>>

InitDeskWith(n) ==
    /\ upstream \in DeskUpstreams(n)
    /\ clock = ClockStart
    /\ pc = [r \in Reqs |-> "idle"]
    /\ now = [r \in Reqs |-> [nan |-> FALSE, t |-> 0]]
    /\ res = [r \in Reqs |-> <<>>]
    /\ ProxyInit
    /\ ClientInit

InitDesk == InitDeskWith(MaxLen)

NextDesk ==
    \/ \E tab \in Tabs : TabClick(tab)
    \/ FetchResolve
    \/ FetchReject
    \/ AnalysisResolve
    \/ AnalysisReject
    \/ \E c \in Components : AbandonedSettle(c)
    \/ \E value \in SearchTerms : SetSearchTerm(value)
    \/ SetFilterOpenHighPriority
    \/ \E mode \in {"list", "dashboard"} : SetViewMode(mode)

SpecDesk == InitDesk /\ [][NextDesk]_vars

\* a fetch of a mounted component settles in the end: the promise of
\* axios.get resolves or rejects, and its continuation is run
InitLive == InitDeskWith(MaxLen - 2)

SpecLive ==
    /\ InitLive /\ [][NextDesk]_vars
    /\ WF_vars(FetchResolve \/ FetchReject)
    /\ WF_vars(AnalysisResolve \/ AnalysisReject)


----------------------------------------------------------------------------
(* Properties.  Answered(r) says that request r got the report (status     *)
(* 200); Report(r) is that report and Issues the array it was computed     *)
(* from.                                                                   *)

Answered(r) == pc[r] = "done" /\ res[r] # <<>> /\ res[r][1].status = 200

Report(r) == res[r][1].body

Issues == upstream.results[1]

Indices == 1..Len(Issues)

Status(i) == toLowerCase(Issues[i].status)

Priority(i) == toLowerCase(Issues[i].priority)

Recognized == {<<"o","p","e","n">>, <<"c","l","o","s","e","d">>,
               <<"p","e","n","d","i","n","g">>, <<"h","o","l","d">>,
               <<"s","o","l","v","e","d">>, <<"n","e","w">>}

Resolved(i) == Status(i) \in {<<"c","l","o","s","e","d">>, <<"s","o","l","v","e","d">>}

Unresolved(i) == Status(i) \in Recognized /\ ~Resolved(i)

\* the instants of ticket i, in milliseconds
Created(i) == Date(Issues[i].created).t

Updated(i) == Date(Issues[i].updated).t

Due(i) == Date(Issues[i].due).t

\* C1: when the fetched results are missing or empty, the only response is
\* the 404 with an error body; no report is sent.
C1_EmptyDataset ==
    \A r \in Reqs :
        (pc[r] = "done" /\ upstream.ok
            /\ (upstream.results = <<>> \/ Len(upstream.results[1]) = 0))
        => /\ Len(res[r]) = 1
           /\ res[r][1].status = 404
           /\ DOMAIN res[r][1].body = {"error"}

C1_Witness ==
    /\ pc[1] = "done"
    /\ upstream.ok
    /\ upstream.results = <<>>
    /\ res[1] # <<>>

StatusSum(r) ==
    LET b == Report(r).statusBreakdown
    IN  b.open + b.closed + b.pending + b.hold + b.solved + b.new

\* C2: the six status counters sum to at most totalIssues, the length of the
\* sequence, with equality exactly when every lowercased status is recognized.
C2_StatusSum ==
    \A r \in Reqs :
        Answered(r) =>
            /\ Report(r).additionalInsights.totalIssues = Len(Issues)
            /\ StatusSum(r) <= Len(Issues)
            /\ (StatusSum(r) = Len(Issues)) <=> (\A i \in Indices : Status(i) \in Recognized)

\* an upper-case spelling of a recognized status next to an unrecognized one
C2_Witness ==
    /\ Answered(1)
    /\ \E i \in Indices : Status(i) \in Recognized /\ Issues[i].status # Status(i)
    /\ \E i \in Indices : Status(i) \notin Recognized
    /\ StatusSum(1) < Len(Issues)

\* the doubles 100, and its two neighbours 100 - 2^-46 and 100 + 2^-46
Hundred == [k |-> "num", s |-> 0, e |-> 6, hi |-> 25 * 2 ^ 21, lo |-> 0]

HundredBelow == [k |-> "num", s |-> 0, e |-> 6, hi |-> 25 * 2 ^ 21 - 1, lo |-> 2 ^ 27 - 1]

HundredAbove == [k |-> "num", s |-> 0, e |-> 6, hi |-> 25 * 2 ^ 21, lo |-> 1]

PercentSum(r) ==
    FAdd(Report(r).resolutionTimeliness.onTimePercent,
         Report(r).resolutionTimeliness.overduePercent)

\* C3 as stated: onTimePercent + overduePercent is 100 whenever a record is
\* resolved, and both are 0 otherwise.
C3_Original ==
    \A r \in Reqs :
        Answered(r) =>
            LET t == Report(r).resolutionTimeliness
            IN  IF t.onTime + t.overdue > 0
                THEN PercentSum(r) = Hundred
                ELSE t.onTimePercent = Zero /\ t.overduePercent = Zero

\* C3 amended: the sum is 100 up to one unit in the last place of the double
\* (100 or one of its two neighbours), and exactly 100 when one of the two
\* counters is 0; both percentages are 0 when no record is resolved.
C3_PercentSum ==
    \A r \in Reqs :
        Answered(r) =>
            LET t == Report(r).resolutionTimeliness
            IN  IF t.onTime + t.overdue > 0
                THEN /\ PercentSum(r) \in {HundredBelow, Hundred, HundredAbove}
                     /\ (t.onTime = 0 \/ t.overdue = 0) => PercentSum(r) = Hundred
                ELSE t.onTimePercent = Zero /\ t.overduePercent = Zero

\* one record on time and two overdue: 33.33333333333333 + 66.66666666666666
C3_Witness ==
    /\ Answered(1)
    /\ Report(1).resolutionTimeliness.onTime = 1
    /\ Report(1).resolutionTimeliness.overdue = 2
    /\ PercentSum(1) = HundredBelow

\* C4: a resolved record (closed or solved) counts as onTime when updated <=
\* due and as overdue otherwise; no other record counts as either.
C4_Timeliness ==
    \A r \in Reqs :
        Answered(r) =>
            /\ Report(r).resolutionTimeliness.onTime =
                   Cardinality({i \in Indices : Resolved(i) /\ Updated(i) <= Due(i)})
            /\ Report(r).resolutionTimeliness.overdue =
                   Cardinality({i \in Indices : Resolved(i) /\ Updated(i) > Due(i)})

\* a record resolved exactly at its due instant, an overdue one and an
\* unresolved one
C4_Witness ==
    /\ Answered(1)
    /\ \E i \in Indices : Resolved(i) /\ Updated(i) = Due(i)
    /\ \E i \in Indices : Resolved(i) /\ Updated(i) > Due(i)
    /\ \E i \in Indices : ~Resolved(i)

\* C5: currentlyOverdue counts the open, pending, hold and new records due
\* strictly before now; records of unrecognized status are counted nowhere;
\* currentlyOverduePercent is currentlyOverdue / totalIssues * 100, which is
\* 100 for a single open record that is past due.
C5_CurrentlyOverdue ==
    \A r \in Reqs :
        Answered(r) =>
            LET t == Report(r).resolutionTimeliness
                late == {i \in Indices : Unresolved(i) /\ Due(i) < now[r].t}
            IN  /\ t.currentlyOverdue = Cardinality(late)
                /\ t.onTime + t.overdue + t.currentlyOverdue
                       <= Cardinality({i \in Indices : Status(i) \in Recognized})
                /\ t.currentlyOverduePercent =
                       FMulInt(FDiv(Cardinality(late), Len(Issues)), 100)
                /\ (Len(Issues) = 1 /\ late # {}) => t.currentlyOverduePercent = Hundred

\* a single open record, past due
C5_Witness ==
    /\ Answered(1)
    /\ Len(Issues) = 1
    /\ Status(1) = <<"o","p","e","n">>
    /\ Due(1) < now[1].t
    /\ Report(1).resolutionTimeliness.currentlyOverdue = 1


\* the records that are high priority and resolved, and their durations
HighResolved == {i \in Indices : Priority(i) = <<"h","i","g","h">> /\ Resolved(i)}

Duration(i) == Updated(i) - Created(i)

RECURSIVE SumDuration(_)
SumDuration(S) ==
    IF S = {} THEN 0
    ELSE LET i == CHOOSE j \in S : TRUE IN Duration(i) + SumDuration(S \ {i})

MaxDuration == CHOOSE d \in {Duration(i) : i \in HighResolved} :
                   \A i \in HighResolved : Duration(i) <= d

\* v is ms / n milliseconds expressed in hours and rounded to 2 decimals: the
\* double of k / 100 for an integer k at most half a hundredth of an hour
\* (18000 ms) away
RoundedHours(v, ms, n) ==
    LET f == ms \div (36000 * n)
    IN  \E k \in (f - 1)..(f + 1) :
            v = FDiv(k, 100) /\ Abs(ms - 36000 * k * n) <= 18000 * n

\* C6: totalClosedHighPriority counts the records that are high priority and
\* closed or solved; averageTimeToCloseHours is the mean of updated - created
\* over them, in hours rounded to 2 decimals (6 for 2 h and 10 h), and 0 when
\* there is none.
C6_HighPriorityAverage ==
    \A r \in Reqs :
        Answered(r) =>
            LET h == Report(r).highPriorityAnalysis
                n == Cardinality(HighResolved)
            IN  /\ h.totalClosedHighPriority = n
                /\ IF n = 0 THEN h.averageTimeToCloseHours = Zero
                   ELSE RoundedHours(h.averageTimeToCloseHours, SumDuration(HighResolved), n)
                /\ ({Duration(i) : i \in HighResolved} = {2 * 3600000, 10 * 3600000} /\ n = 2)
                       => h.averageTimeToCloseHours = FDiv(6, 1)

\* two high-priority resolved records of 2 h and 10 h next to a resolved
\* record that is not high priority
C6_Witness ==
    /\ Answered(1)
    /\ {Duration(i) : i \in HighResolved} = {2 * 3600000, 10 * 3600000}
    /\ Cardinality(HighResolved) = 2
    /\ \E i \in Indices : Resolved(i) /\ i \notin HighResolved
    /\ Report(1).highPriorityAnalysis.averageTimeToCloseHours = FDiv(6, 1)

\* C7: with a high-priority resolved record, timeToSolveHours is the greatest
\* updated - created among them in hours rounded to 2 decimals, and issueId
\* names a record of that duration, also when durations are negative.
C7_Longest ==
    \A r \in Reqs :
        (Answered(r) /\ HighResolved # {}) =>
            LET l == Report(r).longestToSolveHighPriority
            IN  /\ RoundedHours(l.timeToSolveHours, MaxDuration, 1)
                /\ \E i \in HighResolved : Issues[i].id = l.issueId /\ Duration(i) = MaxDuration

\* every high-priority resolved record has a negative duration
C7_Witness ==
    /\ Answered(1)
    /\ HighResolved # {}
    /\ \A i \in HighResolved : Duration(i) < 0
    /\ Report(1).longestToSolveHighPriority.timeToSolveHours.s = 1

\* C8: without a high-priority resolved record longestToSolveHighPriority is
\* the sentinel {0, 0, 0, "N/A"}; with one it is not the sentinel and its
\* issueId is the id of an input record.
C8_Sentinel ==
    \A r \in Reqs :
        Answered(r) =>
            LET l == Report(r).longestToSolveHighPriority
                sentinel == [issueId |-> 0, timeToSolveHours |-> Zero, timeToSolveDays |-> Zero,
                             satisfactionRatingScore |-> <<"N","/","A">>]
            IN  IF HighResolved = {} THEN l = sentinel
                ELSE l # sentinel /\ l.issueId \in {Issues[i].id : i \in Indices}

\* records that are resolved or high priority, none of them both
C8_Witness ==
    /\ Answered(1)
    /\ HighResolved = {}
    /\ \E i \in Indices : Resolved(i)
    /\ \E i \in Indices : Priority(i) = <<"h","i","g","h">>
    /\ Report(1).longestToSolveHighPriority.issueId = 0

\* C9: of several high-priority resolved records of the greatest duration,
\* the first in input order is reported.
C9_FirstOfTies ==
    \A r \in Reqs :
        (Answered(r) /\ HighResolved # {}) =>
            LET first == CHOOSE i \in HighResolved :
                             /\ Duration(i) = MaxDuration
                             /\ \A j \in HighResolved : Duration(j) = MaxDuration => i <= j
            IN  Report(r).longestToSolveHighPriority.issueId = Issues[first].id

\* two records of the greatest duration, the first of them not first in the input
C9_Witness ==
    /\ Answered(1)
    /\ \E i, j \in HighResolved :
           i < j /\ 1 < i /\ Duration(i) = MaxDuration /\ Duration(j) = MaxDuration
    /\ Report(1).longestToSolveHighPriority.issueId > 1

\* the report without the two fields computed from now
Timeless(report) ==
    [report EXCEPT !.resolutionTimeliness.currentlyOverdue = 0,
                   !.resolutionTimeliness.currentlyOverduePercent = Zero]

\* C10 as stated: two invocations on the same sequence return identical
\* reports, whenever each runs.
C10_Original ==
    \A r1, r2 \in Reqs : (Answered(r1) /\ Answered(r2)) => Report(r1) = Report(r2)

\* C10 amended: two invocations on the same sequence return reports that are
\* identical in every field other than currentlyOverdue and
\* currentlyOverduePercent, and identical in those too unless an unresolved
\* record falls due from the earlier now up to, but not at, the later one.
C10_PureUpToNow ==
    \A r1, r2 \in Reqs :
        (Answered(r1) /\ Answered(r2) /\ now[r1].t <= now[r2].t) =>
            /\ Timeless(Report(r1)) = Timeless(Report(r2))
            /\ (~\E i \in Indices : Unresolved(i) /\ now[r1].t <= Due(i) /\ Due(i) < now[r2].t)
                   => Report(r1) = Report(r2)

\* two invocations at different instants, on a sequence with resolved and
\* unresolved records none of which falls due in between
C10_Witness ==
    /\ Answered(1) /\ Answered(2)
    /\ now[1].t < now[2].t
    /\ \E i \in Indices : Unresolved(i)
    /\ \E i \in Indices : Resolved(i)
    /\ Report(1) = Report(2)

\* the response to request r, once it is sent
Response(r) == res[r][1]

\* the upstream sent a ticket without status: the status loop throws
MissingStatus ==
    /\ upstream.ok
    /\ upstream.results # <<>>
    /\ \E i \in Indices : Issues[i].status = <<"undefined">>

\* C11: a failure of the fetch or of the computation is answered with status
\* 500, error 'Failed to analyze data' and the failure's message if it is an
\* Error, else 'Unknown error'; no request that failed ends without a response.
C11_Failure500 ==
    \A r \in Reqs :
        (pc[r] = "done" /\ (~upstream.ok \/ MissingStatus)) =>
            /\ Len(res[r]) = 1
            /\ Response(r).status = 500
            /\ Response(r).body.error = "Failed to analyze data"
            /\ (~upstream.ok /\ upstream.isError) => Response(r).body.message = upstream.message
            /\ (~upstream.ok /\ ~upstream.isError) => Response(r).body.message = "Unknown error"
            /\ MissingStatus =>
                   Response(r).body.message =
                       "Cannot read properties of undefined (reading 'toLowerCase')"

\* the computation failed on a ticket without status that follows a sound one
C11_Witness ==
    /\ pc[1] = "done"
    /\ MissingStatus
    /\ Issues[1].status # <<"undefined">>
    /\ Response(1).status = 500

Sections ==
    {"statusBreakdown", "priorityBreakdown", "resolutionTimeliness", "highPriorityAnalysis",
     "longestToSolveHighPriority", "additionalInsights"}

\* C12: an invocation sends nothing before it is done and then exactly one
\* response: the report with all six sections, or the 404 error, or the 500
\* error.
C12_AllOrNothing ==
    \A r \in Reqs :
        /\ pc[r] # "done" => res[r] = <<>>
        /\ pc[r] = "done" =>
               /\ Len(res[r]) = 1
               /\ \/ Response(r).status = 200 /\ DOMAIN Response(r).body = Sections
                  \/ Response(r).status = 404 /\ DOMAIN Response(r).body = {"error"}
                  \/ Response(r).status = 500 /\ DOMAIN Response(r).body = {"error", "message"}

\* the computation failed in its last loop, after the other sections were
\* computed, and the 500 error is the only response
C12_Witness ==
    /\ pc[1] = "done"
    /\ upstream.ok /\ upstream.results # <<>> /\ Len(Issues) > 1
    /\ \A i \in Indices : <<"undefined">> \notin {Issues[i].status, Issues[i].priority, Issues[i].type}
    /\ now[1].t = clock
    /\ res[1] = <<[status |-> 500,
                   body |-> [error |-> "Failed to analyze data",
                             message |-> "Cannot read properties of undefined (reading 'push')"]]>>

\* C13: issuesClosedCount is the closed counter and issuesOpenCount the open
\* counter: solved records are not in the one, pending, hold and new records
\* not in the other.
C13_ClosedOpenCounts ==
    \A r \in Reqs :
        Answered(r) =>
            LET a == Report(r).additionalInsights
            IN  /\ a.issuesClosedCount = Report(r).statusBreakdown.closed
                /\ a.issuesOpenCount = Report(r).statusBreakdown.open
                /\ a.issuesClosedCount =
                       Cardinality({i \in Indices : Status(i) = <<"c","l","o","s","e","d">>})
                /\ a.issuesOpenCount =
                       Cardinality({i \in Indices : Status(i) = <<"o","p","e","n">>})

\* a solved, an open and a pending or new record
C13_Witness ==
    /\ Answered(1)
    /\ \E i \in Indices : Status(i) = <<"s","o","l","v","e","d">>
    /\ \E i \in Indices : Status(i) = <<"o","p","e","n">>
    /\ \E i \in Indices : Unresolved(i) /\ Status(i) # <<"o","p","e","n">>
    /\ Report(1).additionalInsights.issuesClosedCount = 0
    /\ Report(1).additionalInsights.issuesOpenCount = 1

TypeOf(i) == toLowerCase(Issues[i].type)

\* C14 as stated: the keys of issuesByType are the lowercased types present
\* and each value is the number of records of that type, so that the values
\* sum to totalIssues.
C14_Original ==
    \A r \in Reqs :
        Answered(r) =>
            LET m == Report(r).additionalInsights.issuesByType
            IN  /\ {m[j][1] : j \in 1..Len(m)} = {TypeOf(i) : i \in Indices}
                /\ Len(m) = Cardinality({TypeOf(i) : i \in Indices})
                /\ \A j \in 1..Len(m) :
                       m[j][2] = Number(Cardinality({i \in Indices : TypeOf(i) = m[j][1]}))

PriorityScores(p) == {i \in Indices : Priority(i) = p /\ Score(Issues[i]) # <<>>}

Occurrences(p, score) == Cardinality({i \in PriorityScores(p) : Score(Issues[i]) = score})

\* C15 as stated: averageSatisfactionByPriority has a key exactly for the
\* lowercased priorities with a scored record, and its value is a score of
\* the greatest number of occurrences among that priority's scored records.
C15_Original ==
    \A r \in Reqs :
        Answered(r) =>
            LET m == Report(r).additionalInsights.averageSatisfactionByPriority
            IN  /\ {m[j][1] : j \in 1..Len(m)} = {Priority(i) : i \in {k \in Indices : Score(Issues[k]) # <<>>}}
                /\ \A j \in 1..Len(m) :
                       \A i \in PriorityScores(m[j][1]) :
                           Occurrences(m[j][1], Score(Issues[i])) <= Occurrences(m[j][1], m[j][2])

\* C16: whatever the other invocation does and has done, an invocation
\* whose fetch resolved sends what an invocation on its own sends for the
\* records fetched: the 404 error, or the report computed from these records
\* and from its own now.
C16_NoSharedState ==
    \A r \in Reqs :
        (pc[r] = "done" /\ upstream.ok) =>
            /\ Len(res[r]) = 1
            /\ Response(r) =
                   IF upstream.results = <<>> \/ Len(Issues) = 0
                   THEN [status |-> 404, body |-> [error |-> "No data found"]]
                   ELSE [status |-> 200, body |-> result(Issues, now[r])]
            /\ Answered(r) =>
                   /\ Report(r).additionalInsights.totalIssues = Len(Issues)
                   /\ StatusSum(r) <= Len(Issues)

\* the second invocation has sent its report while the first is suspended
\* at its fetch
C16_Witness ==
    /\ pc[1] = "fetching"
    /\ Answered(2)
    /\ Len(Issues) > 1
    /\ StatusSum(2) = Len(Issues)

\* the issues in the list on the page and the issues fetched
Shown == desk.filteredAndSortedIssues

Fetched == desk.data[1].results

Ids(issues) == {issues[i].id : i \in 1..Len(issues)}

\* the rank of a priority: high, normal, low, and then every other value
Rank(priority) ==
    LET p == toLowerCase(priority)
    IN  IF p = <<"h","i","g","h">> THEN 1
        ELSE IF p = <<"n","o","r","m","a","l">> THEN 2
        ELSE IF p = <<"l","o","w">> THEN 3
        ELSE 4

\* C17 as stated: whatever the search term and the checkbox, the issues in
\* the list are in non-decreasing rank of priority.
C17_Original ==
    ListShown =>
        \A i \in 1..(Len(Shown) - 1) : Rank(Shown[i].priority) <= Rank(Shown[i + 1].priority)

OpenHigh(issue) ==
    /\ toLowerCase(issue.status) = <<"o","p","e","n">>
    /\ toLowerCase(issue.priority) = <<"h","i","g","h">>

\* C18: with the checkbox checked the list holds exactly the fetched issues
\* that pass the search and are open and of high priority, each once; with
\* the checkbox unchecked it holds every fetched issue that passes the search.
C18_Filter ==
    ListShown =>
        LET searched == filtered(Fetched, FALSE, desk.searchTerm)
            kept == {i \in 1..Len(searched) :
                        desk.filterOpenHighPriority => OpenHigh(searched[i])}
        IN  /\ Ids(Shown) = {searched[i].id : i \in kept}
            /\ Len(Shown) = Cardinality(kept)
            /\ \A i \in 1..Len(Shown) : \E j \in 1..Len(Fetched) : Shown[i] = Fetched[j]

\* the checkbox is checked over an issue that is open and high in mixed
\* case, one that is open and low and one that is closed and high
C18_Witness ==
    /\ ListShown
    /\ desk.filterOpenHighPriority
    /\ \E i \in 1..Len(Fetched) : OpenHigh(Fetched[i]) /\ Fetched[i].status # toLowerCase(Fetched[i].status)
    /\ \E i \in 1..Len(Fetched) :
           toLowerCase(Fetched[i].status) = <<"o","p","e","n">> /\ ~OpenHigh(Fetched[i])
    /\ \E i \in 1..Len(Fetched) :
           toLowerCase(Fetched[i].priority) = <<"h","i","g","h">> /\ ~OpenHigh(Fetched[i])
    /\ Len(Shown) = 1

\* C19 as stated: the list holds exactly the issues (that pass the checkbox)
\* whose organization_id contains the search term without its surrounding
\* spaces, case-insensitively; an empty or blank term keeps them all.
C19_Original ==
    ListShown =>
        LET term == toLowerCase(trim(desk.searchTerm))
        IN  Ids(Shown) =
                {Fetched[i].id : i \in {j \in 1..Len(Fetched) :
                    /\ includes(toLowerCase(Fetched[j].organization_id), term)
                    /\ desk.filterOpenHighPriority => OpenHigh(Fetched[j])}}

Views == {view \in {"ServiceDesk", "Analysis", "Data"} : rendered(view)}

ViewOf(tab) ==
    IF tab = "service-desk" THEN "ServiceDesk"
    ELSE IF tab = "backend-analysis" THEN "Analysis"
    ELSE "Data"

\* C20: the page starts with the Service Desk view alone, exactly one view
\* is rendered at any time, and a click on a tab leaves the view of that tab.
C20_OneView ==
    /\ Views = {"ServiceDesk"}
    /\ [](Cardinality(Views) = 1)
    /\ [][\A tab \in Tabs : TabClick(tab) => Views' = {ViewOf(tab)}]_vars

\* the Raw Data tab was clicked after the Service Desk view had its data
C20_Witness ==
    /\ activeTab = "raw-data"
    /\ Views = {"Data"}
    /\ desk = DeskMount

\* the dashboard is on the page
DashboardShown ==
    /\ activeTab = "service-desk"
    /\ ~desk.loading /\ desk.error = <<>> /\ desk.data # <<>>
    /\ desk.viewMode = "dashboard"

Stats == dashboardStats(desk.data)

\* the number of fetched issues whose key in a map is key
Keyed(map, key) ==
    Cardinality({i \in 1..Len(Fetched) :
        LET issue == Fetched[i]
        IN  key = CASE map = "byPriority" -> toLowerCase(issue.priority)
                    [] map = "byType" -> toLowerCase(issue.type)
                    [] map = "byStatus" -> toLowerCase(issue.status)
                    [] OTHER -> IF Score(issue) # <<>> THEN Score(issue) ELSE NA})

StatKeys(map) ==
    {CASE map = "byPriority" -> toLowerCase(Fetched[i].priority)
       [] map = "byType" -> toLowerCase(Fetched[i].type)
       [] map = "byStatus" -> toLowerCase(Fetched[i].status)
       [] OTHER -> IF Score(Fetched[i]) # <<>> THEN Score(Fetched[i]) ELSE NA :
     i \in 1..Len(Fetched)}

\* C21 as stated: each of the four maps has a key for exactly the values that
\* occur among the fetched issues (lowercased; N/A for no score), with the
\* number of these issues as its value, so that every issue is counted once
\* in each map; the Summary shows the entries open, high and closed, 0 for an
\* absent key.
C21_Original ==
    DashboardShown =>
        /\ \A map \in {"byPriority", "byType", "byStatus", "bySatisfaction"} :
               /\ {Stats[map][j][1] : j \in 1..Len(Stats[map])} = StatKeys(map)
               /\ \A j \in 1..Len(Stats[map]) :
                      Stats[map][j][2] = Number(Keyed(map, Stats[map][j][1]))
        /\ Summary(desk.data) =
               [totalTickets |-> Number(Len(Fetched)),
                openTickets |-> Number(Keyed("byStatus", open)),
                highPriority |-> Number(Keyed("byPriority", high)),
                closedTickets |-> Number(Keyed("byStatus", closed))]

StateOf(c) == IF c = "ServiceDesk" THEN desk ELSE analysis

C25_NoLateUpdate == afterUnmount.calls = {}

\* a ServiceDesk was unmounted while loading and its fetch has settled since
C25_Witness ==
    /\ afterUnmount.settled
    /\ abandoned["ServiceDesk"] = 0
    /\ abandoned["Analysis"] = 1
    /\ activeTab = "raw-data"

\* C23: an invocation reads the clock once, after its fetch and before the
\* timeliness loop, and measures every record against that one instant: the
\* unresolved records it counts as currently overdue are those due before the
\* instant it read, wherever they stand in the input and however the clock
\* moves before and after.
C23_NowOnce ==
    \A r \in Reqs :
        Answered(r) =>
            LET instant == now[r].t
                overdueAt(i) == Unresolved(i) /\ instant > Due(i)
            IN  /\ ~now[r].nan
                /\ ClockStart <= instant /\ instant <= clock
                /\ Report(r).resolutionTimeliness.currentlyOverdue =
                       Cardinality({i \in Indices : overdueAt(i)})

\* the clock moved before the fetch resolved; of two unresolved records the
\* later in the input is due at the very instant read, the other before it
C23_Witness ==
    /\ Answered(1)
    /\ now[1].t > ClockStart
    /\ \E i, j \in Indices :
           /\ i < j
           /\ Unresolved(i) /\ Due(i) < now[1].t
           /\ Unresolved(j) /\ Due(j) = now[1].t
    /\ Report(1).resolutionTimeliness.currentlyOverdue = 1

Unparseable(i) ==
    \E str \in {Issues[i].created, Issues[i].updated, Issues[i].due} : Date(str).nan

\* C24 as stated: a request for records of which some have an unparseable
\* timestamp is answered with the report and not with status 500, and none
\* of the report's percentages, mean durations and longest durations is NaN.
C24_Original ==
    \A r \in Reqs :
        (pc[r] = "done" /\ upstream.ok /\ \E i \in Indices : Unparseable(i)) =>
            /\ Answered(r)
            /\ LET t == Report(r).resolutionTimeliness
                   h == Report(r).highPriorityAnalysis
                   l == Report(r).longestToSolveHighPriority
               IN  \A x \in {t.onTimePercent, t.overduePercent, t.currentlyOverduePercent,
                              h.averageTimeToCloseHours, h.averageTimeToCloseDays,
                              l.timeToSolveHours, l.timeToSolveDays} : x.k # "nan"

\* the scores of priority p of the greatest number of occurrences
Modes(p) ==
    {Score(Issues[i]) : i \in {k \in PriorityScores(p) :
        \A j \in PriorityScores(p) :
            Occurrences(p, Score(Issues[j])) <= Occurrences(p, Score(Issues[k]))}}

\* where score first occurs among the scored records of priority p
FirstOccurrence(p, score) ==
    CHOOSE i \in PriorityScores(p) :
        /\ Score(Issues[i]) = score
        /\ \A j \in PriorityScores(p) : Score(Issues[j]) = score => i <= j

\* score a comes before score b in the key order of the counts of priority p
KeyBefore(p, a, b) ==
    IF IsIndex(a) /\ IsIndex(b) THEN IndexLess(a, b)
    ELSE IF IsIndex(a) # IsIndex(b) THEN IsIndex(a)
    ELSE FirstOccurrence(p, a) < FirstOccurrence(p, b)

\* C26 as stated: of the scores of one priority that share the greatest
\* frequency, the one whose first occurrence in the input is latest is
\* returned.
C26_Original ==
    \A r \in Reqs :
        Answered(r) =>
            LET m == Report(r).additionalInsights.averageSatisfactionByPriority
            IN  \A j \in 1..Len(m) :
                    /\ m[j][2] \in Modes(m[j][1])
                    /\ \A score \in Modes(m[j][1]) :
                           FirstOccurrence(m[j][1], score) <= FirstOccurrence(m[j][1], m[j][2])

\* C26: of the scores of one priority that share the greatest frequency, the
\* one that comes last in the order of Object.keys is returned: a numeral
\* that is an integer index comes before every other score and after the
\* lesser such numerals, and the other scores come in the order of their
\* first occurrences; so among scores none of which is such a numeral, the
\* one whose first occurrence is latest is returned.
C26_LastKey ==
    \A r \in Reqs :
        Answered(r) =>
            LET m == Report(r).additionalInsights.averageSatisfactionByPriority
            IN  \A j \in 1..Len(m) :
                    /\ m[j][2] \in Modes(m[j][1])
                    /\ \A score \in Modes(m[j][1]) \ {m[j][2]} :
                           KeyBefore(m[j][1], score, m[j][2])
                    /\ (\A score \in Modes(m[j][1]) : ~IsIndex(score)) =>
                           \A score \in Modes(m[j][1]) :
                               FirstOccurrence(m[j][1], score)
                                   <= FirstOccurrence(m[j][1], m[j][2])

\* three scores occur once each: the numeral 5 first, a word second and the
\* numeral 3 last; the word is returned
C26_Witness ==
    /\ Answered(1)
    /\ Len(Issues) = 3
    /\ Score(Issues[1]) = <<"5">>
    /\ Score(Issues[2]) = <<"g","o","o","d">>
    /\ Score(Issues[3]) = <<"3">>
    /\ Report(1).additionalInsights.averageSatisfactionByPriority =
           <<(<<(<<"h","i","g","h">>), (<<"g","o","o","d">>)>>)>>

\* C27: the passes over the records agree: the records classed on time or
\* overdue are as many as those counted closed or solved, those classed
\* currently overdue are at most those counted open, pending, hold or new,
\* and the closed high-priority records are at most the high-priority
\* records and at most the closed or solved ones.
C27_CrossPass ==
    \A r \in Reqs :
        Answered(r) =>
            LET b == Report(r).statusBreakdown
                t == Report(r).resolutionTimeliness
                h == Report(r).highPriorityAnalysis
            IN  /\ t.onTime + t.overdue = b.closed + b.solved
                /\ t.currentlyOverdue <= b.open + b.pending + b.hold + b.new
                /\ h.totalClosedHighPriority <= Report(r).priorityBreakdown.high
                /\ h.totalClosedHighPriority <= b.closed + b.solved

\* resolved and unresolved records, of high priority and not, in mixed case;
\* some of the unresolved ones are not yet due
C27_Witness ==
    /\ Answered(1)
    /\ Report(1).resolutionTimeliness.onTime + Report(1).resolutionTimeliness.overdue = 2
    /\ Report(1).highPriorityAnalysis.totalClosedHighPriority = 1
    /\ Report(1).priorityBreakdown.high = 1
    /\ Report(1).resolutionTimeliness.currentlyOverdue = 0
    /\ Report(1).statusBreakdown.pending = 1
    /\ \E i \in Indices : Resolved(i) /\ Issues[i].priority # Priority(i)

\* a step of a ServiceDesk with data that changes the search term, the
\* checkbox or the view
Control ==
    /\ desk.data # <<>>
    /\ desk'.data # <<>>
    /\ \/ desk'.searchTerm # desk.searchTerm
       \/ desk'.filterOpenHighPriority # desk.filterOpenHighPriority
       \/ desk'.viewMode # desk.viewMode

\* C28: the data a ServiceDesk holds is the body that was fetched, in its
\* order, whatever the controls have been set to since; and a change of the
\* search term, of the checkbox or of the view leaves the data, the total M
\* of 'Showing N of M' and the dashboard statistics as they were.
C28_Frame ==
    /\ [](desk.data # <<>> => Fetched = upstream.results[1])
    /\ [][Control =>
             /\ desk'.data = desk.data
             /\ Len(desk'.data[1].results) = Len(desk.data[1].results)
             /\ dashboardStats(desk'.data) = dashboardStats(desk.data)]_vars

\* the dashboard is shown after a search and the checkbox cut the list down;
\* the fetched issues are not in the order of their priorities
C28_Witness ==
    /\ DashboardShown
    /\ desk.searchTerm # <<>>
    /\ desk.filterOpenHighPriority
    /\ Len(Shown) = 1
    /\ Len(Fetched) = 3
    /\ Rank(Fetched[1].priority) > Rank(Fetched[2].priority)
    /\ Fetched = upstream.results[1]

\* C29: GET /api/issues sends a response only after its fetch resolved, and
\* then one response, whose body is the data fetched; when the fetch rejects
\* the handler sends nothing and its promise rejects with that failure.
C29_Proxy ==
    /\ proxy.res # <<>> =>
           /\ upstream.ok
           /\ proxy.pc = "done"
           /\ proxy.res = <<[status |-> 200, body |-> upstream.results]>>
    /\ proxy.pc = "done" => proxy.res # <<>> /\ proxy.rejected = <<>>
    /\ proxy.pc = "rejected" =>
           /\ ~upstream.ok
           /\ proxy.res = <<>>
           /\ proxy.rejected = <<[isError |-> upstream.isError, message |-> upstream.message]>>
    /\ proxy.pc \in {"idle", "fetching"} => proxy.res = <<>> /\ proxy.rejected = <<>>
    /\ (~upstream.ok) => proxy.pc # "done"

\* the fetch was rejected with a network error
C29_Witness ==
    /\ proxy.pc = "rejected"
    /\ proxy.res = <<>>
    /\ proxy.rejected = <<[isError |-> TRUE, message |-> "Network Error"]>>

\* the request was answered with a report taken after every due date of the
\* fixture
AfterDueDates(r) ==
    /\ Answered(r)
    /\ Issues = mockDataExtended
    /\ \A i \in Indices : now[r].t > Due(i)

\* the values of the App test that do not depend on the instant or on a tie
FixtureValues(r) ==
    LET b == Report(r).statusBreakdown
        p == Report(r).priorityBreakdown
        t == Report(r).resolutionTimeliness
        h == Report(r).highPriorityAnalysis
        l == Report(r).longestToSolveHighPriority
    IN  /\ b.open = 1 /\ b.closed = 2 /\ b.pending = 1
        /\ p.high = 2 /\ p.normal = 1 /\ p.low = 1
        /\ t.onTime = 1 /\ t.overdue = 1
        /\ h.totalClosedHighPriority = 1
        /\ h.averageTimeToCloseHours = FDiv(4, 1)
        /\ l.issueId = 3
        /\ l.timeToSolveHours = FDiv(4, 1)
        /\ l.timeToSolveDays = FDiv(17, 100)
        /\ l.satisfactionRatingScore = <<"b","a","d">>

Satisfaction(r) ==
    LET m == Report(r).additionalInsights.averageSatisfactionByPriority
    IN  {m[j] : j \in 1..Len(m)}

\* C30 as stated: at an instant after the due dates the report on the fixture
\* has the values of the App test, with currentlyOverdue = 0 and the score
\* good for the priority high.
C30_Original ==
    \A r \in Reqs :
        AfterDueDates(r) =>
            /\ FixtureValues(r)
            /\ Report(r).resolutionTimeliness.currentlyOverdue = 0
            /\ Satisfaction(r) =
                   {<<high, good>>, <<normal, excellent>>, <<low, good>>}

\* C30: at an instant after the due dates the report on the fixture has the
\* counts, durations and longest record of the App test, but both unresolved
\* records are currently overdue (2, not 0), and the score of the priority
\* high is bad, the later of its two scores of one occurrence each;
\* currentlyOverdue is 0 only up to the due instant of the open record.
C30_Fixture ==
    \A r \in Reqs :
        (Answered(r) /\ Issues = mockDataExtended) =>
            /\ FixtureValues(r)
            /\ Satisfaction(r) = {<<high, bad>>, <<normal, excellent>>, <<low, good>>}
            /\ AfterDueDates(r) => Report(r).resolutionTimeliness.currentlyOverdue = 2
            /\ Report(r).resolutionTimeliness.currentlyOverdue = 0 <=> now[r].t <= Due(1)

\* the fixture was analyzed a millisecond after its last due date
C30_Witness ==
    /\ AfterDueDates(1)
    /\ now[1].t = Due(4) + 1
    /\ Report(1).resolutionTimeliness.currentlyOverdue = 2

====
